---- MODULE Spec2Model ----
(***************************************************************************)
(* Model of the Swiss Grid Generator (src/cli/swiss_grid_generator.py).    *)
(*                                                                         *)
(* Numbers.  The program computes with Python floats.  The model computes  *)
(* with fixed-point integers:                                              *)
(*   - a length is an integer number of 1/PT points (PT = 10^4),           *)
(*   - a scale factor is an integer number of 1/SF (SF = 10^6),            *)
(*   - a value that went through round(x, 3) is an integer number of       *)
(*     thousandths (so round(x, 3) is a real rounding step in the model),  *)
(*   - the module width, the one quantity obtained by dividing by an       *)
(*     arbitrary integer, is kept as the exact fraction num/den.           *)
(* Python's round() rounds half to even; so does Round below.              *)
(***************************************************************************)
EXTENDS Integers, Sequences, FiniteSets, TLC

VARIABLES
    args,          \* the arguments of the call: format_name, margin_method, ...
    pc,            \* "ready" before the call; "generated", "written",
                   \* "exported", "drawing", "drawn" during and after it
    raised,        \* "none", or the exception class the call raised
    message,       \* the exception's message (a record), when one was raised
    locals,        \* generate_swiss_grid_assets' local variables at its return
    summary,       \* the summary dict it returned
    outputs,       \* the keys of the outputs dict it returned (file names)
    pdf_path,      \* the pdf path it returned
    files,         \* the files that exist on disk
    stderr,        \* what was printed to sys.stderr
    svg,           \* the drawing generate_grid_gutters_svg or
                   \* generate_baselines_svg returned
    canvas,        \* what generate_baseline_grid_pdf has drawn on its Canvas
    result,        \* what select_option or deploy.py's main returned
    remote,        \* the files and directories on the SFTP server
    calls,         \* the SSH and SFTP calls deploy.py has made, in order
    connections    \* the state of deploy.py's SSH and SFTP connections

\* The variables of the deployment script.
deploy_vars == <<remote, calls, connections>>

\* The variables of the grid generator's engine and renderers.
export_vars == <<message, summary, outputs, pdf_path, files, stderr, svg, canvas>>

vars == <<args, pc, raised, message, locals, summary, outputs, pdf_path, files, stderr, svg, canvas, result, remote, calls, connections>>

----------------------------------------------------------------------------
(* Bounds of the model *)

MaxCols == 3
MaxRows == 4

----------------------------------------------------------------------------
(* Fixed-point arithmetic standing for the float arithmetic *)

PT == 10^4          \* length units per point
SF == 10^6          \* scale-factor units per 1.0
MILLI == PT \div 1000   \* length units per thousandth of a point

Abs(x) == IF x < 0 THEN -x ELSE x
Sgn(x) == IF x < 0 THEN -1 ELSE IF x > 0 THEN 1 ELSE 0
Min(a, b) == IF a <= b THEN a ELSE b

\* round(n / d): Python's round(), half to even; d # 0.
Round(n, d) ==
    LET an == Abs(n)
        ad == Abs(d)
        q  == an \div ad
        r  == an % ad
        up == (2 * r > ad) \/ (2 * r = ad /\ q % 2 = 1)
    IN  Sgn(n) * Sgn(d) * (IF up THEN q + 1 ELSE q)

\* int(n / d): Python's int() of a float quotient, truncation toward zero.
Trunc(n, d) == Sgn(n) * Sgn(d) * (Abs(n) \div Abs(d))

\* <<q, r>> with a * b = q * c + r and 0 <= r < c, for a, b >= 0 and c > 0,
\* computed by doubling so that no intermediate value leaves 32 bits.
RECURSIVE MulDivQR(_, _, _)
MulDivQR(a, b, c) ==
    IF b = 0 THEN <<0, 0>>
    ELSE LET half == MulDivQR(a, b \div 2, c)
             q2   == 2 * half[1] + (2 * half[2]) \div c
             r2   == (2 * half[2]) % c
         IN  IF b % 2 = 0 THEN <<q2, r2>>
             ELSE <<q2 + (r2 + a) \div c, (r2 + a) % c>>

\* round(a * b / c), half to even, for any signs; c # 0.
MulDivRound(a, b, c) ==
    LET qr == MulDivQR(Abs(a), Abs(b), Abs(c))
        q  == qr[1]
        r  == qr[2]
        up == (2 * r > Abs(c)) \/ (2 * r = Abs(c) /\ q % 2 = 1)
    IN  Sgn(a) * Sgn(b) * Sgn(c) * (IF up THEN q + 1 ELSE q)

\* round(x, 3) of a length: thousandths of a point.
Round3(x) == Round(x, MILLI)

----------------------------------------------------------------------------
(* Constants of the program *)

\* FORMATS_PT, in thousandths of a point as written in the source.
FORMATS_PT ==
    [ A6 |-> <<297638, 419528>>,
      A5 |-> <<419528, 595276>>,
      A4 |-> <<595276, 841890>>,
      A3 |-> <<841890, 1190551>>,
      A2 |-> <<1190551, 1683780>>,
      A1 |-> <<1683780, 2383937>>,
      A0 |-> <<2383937, 3370394>> ]

\* FORMATS_PT.keys(), in the dict's insertion order.
FORMATS_PT_keys == <<"A6", "A5", "A4", "A3", "A2", "A1", "A0">>

BASE_GRID_UNIT == 12 * PT
BASE_GUTTER == 6 * PT

MARGIN_METHODS == {1, 2, 3}

MARGIN_METHOD_LABELS ==
    [m \in MARGIN_METHODS |->
        CASE m = 1 -> "Progressive (1:2:2:3)"
          [] m = 2 -> "Van de Graaf (page/9)"
          [] m = 3 -> "Grid-based (baseline multiples)"]

\* None, and a given optional value.
None == <<>>
Some(x) == <<x>>

----------------------------------------------------------------------------
(* Margin strategies *)

\* grid_unit * ratio * baseline_multiple, the ratio given in tenths.
Times(grid_unit, tenths, baseline_multiple) ==
    Round(grid_unit * tenths * baseline_multiple, 10)

\* Mutant of calculate_progressive_margins: top and bottom ratios exchanged.
calculate_progressive_margins_swapped(grid_unit, w, h, grid_cols, grid_rows, baseline_multiple) ==
    [ margin_top    |-> Times(grid_unit, 30, baseline_multiple),
      margin_bottom |-> Times(grid_unit, 10, baseline_multiple),
      margin_left   |-> Times(grid_unit, 20, baseline_multiple),
      margin_right  |-> Times(grid_unit, 20, baseline_multiple),
      grid_margin_horizontal |-> grid_unit,
      grid_margin_vertical   |-> grid_unit ]

calculate_progressive_margins(grid_unit, w, h, grid_cols, grid_rows, baseline_multiple) ==
    [ margin_top    |-> Times(grid_unit, 10, baseline_multiple),
      margin_bottom |-> Times(grid_unit, 30, baseline_multiple),
      margin_left   |-> Times(grid_unit, 20, baseline_multiple),
      margin_right  |-> Times(grid_unit, 20, baseline_multiple),
      grid_margin_horizontal |-> grid_unit,
      grid_margin_vertical   |-> grid_unit ]

\* Mutant of calculate_vandegraaf_margins: the horizontal gutter is BASE_GUTTER.
calculate_vandegraaf_margins_base_gutter(grid_unit, w, h, grid_cols, grid_rows, baseline_multiple) ==
    [ margin_top    |-> Times(grid_unit, 20, baseline_multiple),
      margin_bottom |-> Times(grid_unit, 30, baseline_multiple),
      margin_left   |-> Times(grid_unit, 10, baseline_multiple),
      margin_right  |-> Times(grid_unit, 15, baseline_multiple),
      grid_margin_horizontal |-> BASE_GUTTER,
      grid_margin_vertical   |-> grid_unit ]

\* Mutant of calculate_vandegraaf_margins: the page-ninths canon of the label.
calculate_vandegraaf_margins_page_ninths(grid_unit, w, h, grid_cols, grid_rows, baseline_multiple) ==
    [ margin_top    |-> Round(h * baseline_multiple, 9),
      margin_bottom |-> Round(2 * h * baseline_multiple, 9),
      margin_left   |-> Round(w * baseline_multiple, 9),
      margin_right  |-> Round(2 * w * baseline_multiple, 9),
      grid_margin_horizontal |-> grid_unit,
      grid_margin_vertical   |-> grid_unit ]

calculate_vandegraaf_margins(grid_unit, w, h, grid_cols, grid_rows, baseline_multiple) ==
    [ margin_top    |-> Times(grid_unit, 20, baseline_multiple),
      margin_bottom |-> Times(grid_unit, 30, baseline_multiple),
      margin_left   |-> Times(grid_unit, 10, baseline_multiple),
      margin_right  |-> Times(grid_unit, 15, baseline_multiple),
      grid_margin_horizontal |-> grid_unit,
      grid_margin_vertical   |-> grid_unit ]

calculate_grid_based_margins(grid_unit, w, h, grid_cols, grid_rows, baseline_multiple) ==
    [ margin_top    |-> baseline_multiple * grid_unit,
      margin_bottom |-> baseline_multiple * grid_unit,
      margin_left   |-> baseline_multiple * grid_unit,
      margin_right  |-> baseline_multiple * grid_unit,
      grid_margin_horizontal |-> grid_unit,
      grid_margin_vertical   |-> grid_unit ]

\* MARGIN_CALCULATORS[margin_method](grid_unit, w, h, grid_cols, grid_rows)
MARGIN_CALCULATORS(margin_method, grid_unit, w, h, grid_cols, grid_rows) ==
    CASE margin_method = 1 -> calculate_progressive_margins(grid_unit, w, h, grid_cols, grid_rows, 1)
      [] margin_method = 2 -> calculate_vandegraaf_margins(grid_unit, w, h, grid_cols, grid_rows, 1)
      [] margin_method = 3 -> calculate_grid_based_margins(grid_unit, w, h, grid_cols, grid_rows, 1)

----------------------------------------------------------------------------
(* Scale factor *)

\* The page size for a format and an orientation, in thousandths of a point.
PageSize(format_name, orientation) ==
    LET wh == FORMATS_PT[format_name]
    IN  IF orientation = "landscape" THEN <<wh[2], wh[1]>> ELSE wh

calculate_scale_factor(format_name, orientation) ==
    LET a4 == FORMATS_PT["A4"]
        wh == PageSize(format_name, orientation)
    IN  Min(MulDivRound(wh[1], SF, a4[1]), MulDivRound(wh[2], SF, a4[2]))

----------------------------------------------------------------------------
(* Typography *)

\* A4_TYPOGRAPHY: size and leading in points, baseline_mult and body_lines
\* in hundredths.
A4_TYPOGRAPHY ==
    [ caption        |-> [size |-> 7,  leading |-> 8,  baseline_mult |-> 67,  body_lines |-> 67,  weight |-> "Regular"],
      footnote       |-> [size |-> 6,  leading |-> 12, baseline_mult |-> 100, body_lines |-> 100, weight |-> "Regular"],
      body           |-> [size |-> 10, leading |-> 12, baseline_mult |-> 100, body_lines |-> 100, weight |-> "Regular"],
      lead           |-> [size |-> 12, leading |-> 12, baseline_mult |-> 100, body_lines |-> 100, weight |-> "Regular"],
      subhead_small  |-> [size |-> 14, leading |-> 24, baseline_mult |-> 200, body_lines |-> 200, weight |-> "Bold"],
      subhead_medium |-> [size |-> 18, leading |-> 24, baseline_mult |-> 200, body_lines |-> 200, weight |-> "Bold"],
      headline_3     |-> [size |-> 20, leading |-> 24, baseline_mult |-> 200, body_lines |-> 200, weight |-> "Bold"],
      headline_2     |-> [size |-> 28, leading |-> 36, baseline_mult |-> 300, body_lines |-> 300, weight |-> "Bold"],
      headline_1     |-> [size |-> 48, leading |-> 48, baseline_mult |-> 400, body_lines |-> 400, weight |-> "Bold"],
      display        |-> [size |-> 72, leading |-> 72, baseline_mult |-> 600, body_lines |-> 600, weight |-> "Bold"] ]

\* Sizes and leadings of the result are thousandths of a point (round(x, 3)).
generate_typography_styles(scale_factor, grid_unit, format_name) ==
    [ metadata |->
        [ format        |-> format_name,
          unit          |-> "pt",
          baseline_grid |-> Round3(grid_unit),
          a4_baseline   |-> BASE_GRID_UNIT,
          scale_factor  |-> Round(scale_factor, SF \div 1000) ],
      styles |->
        [ style_name \in DOMAIN A4_TYPOGRAPHY |->
            LET a4_style == A4_TYPOGRAPHY[style_name]
            IN  [ size    |-> Round(a4_style.size * scale_factor, SF \div 1000),
                  leading |-> Round(a4_style.leading * grid_unit, (BASE_GRID_UNIT \div PT) * MILLI),
                  weight  |-> a4_style.weight,
                  alignment |-> "Left",
                  baseline_multiplier |-> a4_style.baseline_mult,
                  body_lines |-> a4_style.body_lines ] ] ]

----------------------------------------------------------------------------
(* Summary *)

\* The module width is the exact fraction num/den; round(mod_w, 3).
Round3Frac(f) == Round(f.num, f.den * MILLI)

build_summary(format_name, orientation, margin_method, grid_cols, grid_rows, w, h, grid_unit, grid_margin_horizontal, grid_margin_vertical, margin_top, margin_bottom, margin_left, margin_right, gutter, net_w, net_h, mod_w, mod_h, typo_settings, scale_factor, json_path, pdf, baseline_units_per_cell) ==
    [ format   |-> format_name,
      settings |->
        [ orientation      |-> orientation,
          margin_method    |-> MARGIN_METHOD_LABELS[margin_method],
          margin_method_id |-> margin_method,
          grid_cols        |-> grid_cols,
          grid_rows        |-> grid_rows ],
      page_size_pt |-> [ width |-> Round3(w), height |-> Round3(h) ],
      grid |->
        [ grid_unit              |-> Round3(grid_unit),
          grid_margin_horizontal |-> Round3(grid_margin_horizontal),
          grid_margin_vertical   |-> Round3(grid_margin_vertical),
          margins |->
            [ top    |-> Round3(margin_top),
              bottom |-> Round3(margin_bottom),
              left   |-> Round3(margin_left),
              right  |-> Round3(margin_right) ],
          gutter                  |-> Round3(gutter),
          scale_factor            |-> Round(scale_factor, SF \div 1000),
          baseline_units_per_cell |-> baseline_units_per_cell ],
      content_area |-> [ width |-> Round3(net_w), height |-> Round3(net_h) ],
      module |->
        [ width  |-> Round3Frac(mod_w),
          height |-> Round3(mod_h),
          aspect_ratio |-> MulDivRound(mod_w.num, 1000, mod_w.den * mod_h) ],
      typography |->
        [ metadata |-> typo_settings.metadata,
          styles   |->
            [ name \in DOMAIN typo_settings.styles |->
                [ size      |-> typo_settings.styles[name].size,
                  leading   |-> typo_settings.styles[name].leading,
                  weight    |-> typo_settings.styles[name].weight,
                  alignment |-> typo_settings.styles[name].alignment ] ] ],
      outputs |-> [ grid_json |-> json_path, baseline_grid_pdf |-> pdf ] ]

----------------------------------------------------------------------------
(* Text rendering *)

\* Mutant of Format3: one decimal, the ":.1f" of pretty_print_summary.
Format1(x) ==
    LET t == Round(x, 100)
    IN  [ neg |-> t < 0, whole |-> Abs(t) \div 10, frac |-> (Abs(t) % 10) * 100 ]

\* f"{x:.3f}" of a value in thousandths: sign, integer digits, three decimals.
Format3(x) ==
    [ neg |-> x < 0, whole |-> Abs(x) \div 1000, frac |-> Abs(x) % 1000 ]

\* Lines 681-748: the lines that depend on the summary (a_summary: summary
\* is the name of a variable here), each under its label
\* with the fields it prints (the titles, rules, principles and footer are
\* constant text).
generate_text_format(a_summary) ==
    [ Format        |-> a_summary.format,
      Orientation   |-> a_summary.settings.orientation,
      Margin_Method |-> a_summary.settings.margin_method,
      Grid          |-> [ cols |-> a_summary.settings.grid_cols, rows |-> a_summary.settings.grid_rows ],
      Page_Size     |-> <<Format3(a_summary.page_size_pt.width), Format3(a_summary.page_size_pt.height)>>,
      Content_Area  |-> <<Format3(a_summary.content_area.width), Format3(a_summary.content_area.height)>>,
      Module_Size   |-> <<Format3(a_summary.module.width), Format3(a_summary.module.height)>>,
      Aspect_Ratio  |-> Format3(a_summary.module.aspect_ratio),
      Scale_Factor  |-> Format3(a_summary.grid.scale_factor),
      Baseline_Grid |-> Format3(a_summary.grid.grid_unit),
      H_Gutter      |-> Format3(a_summary.grid.grid_margin_horizontal),
      V_Gutter      |-> Format3(a_summary.grid.grid_margin_vertical),
      Cell_Height   |->
        LET baseline_units == a_summary.grid.baseline_units_per_cell
            cell_height    == baseline_units * a_summary.grid.grid_unit
        IN  [ height |-> Format3(cell_height), baseline_units |-> baseline_units ],
      Margins       |->
        [ T |-> Format3(a_summary.grid.margins.top),
          B |-> Format3(a_summary.grid.margins.bottom),
          L |-> Format3(a_summary.grid.margins.left),
          R |-> Format3(a_summary.grid.margins.right) ],
      Styles        |->
        [ style_name \in DOMAIN a_summary.typography.styles |->
            LET style_vals == a_summary.typography.styles[style_name]
            IN  [ size      |-> Format3(style_vals.size),
                  leading   |-> Format3(style_vals.leading),
                  weight    |-> style_vals.weight,
                  alignment |-> style_vals.alignment ] ],
      Grid_JSON     |-> a_summary.outputs.grid_json,
      Grid_TXT      |-> a_summary.outputs.grid_txt,
      Grid_PDF      |-> a_summary.outputs.baseline_grid_pdf ]

----------------------------------------------------------------------------
(* Drawings *)

\* Lines 349-373: the page, the content area and the module rectangles of
\* the SVG, in the order they are appended; the lengths are in thousandths
\* of a point and printed with ":.3f". (The pattern definition and the four
\* margin labels of lines 375-382 are left out.)
generate_grid_gutters_svg(w, h, margin_left, margin_right, margin_top, margin_bottom, mod_w, mod_h, grid_modules, grid_margin_horizontal, grid_margin_vertical) ==
    [ width   |-> Format3(w),
      height  |-> Format3(h),
      content |->
        [ x      |-> Format3(margin_left),
          y      |-> Format3(margin_top),
          width  |-> Format3(w - margin_left - margin_right),
          height |-> Format3(h - margin_top - margin_bottom) ],
      modules |->
        [ i \in 1..(grid_modules * grid_modules) |->
            LET r == (i - 1) \div grid_modules
                c == (i - 1) % grid_modules
                x == margin_left + c * (mod_w + grid_margin_horizontal)
                y == margin_top + r * (mod_h + grid_margin_vertical)
            IN  [ x |-> Format3(x), y |-> Format3(y),
                  width |-> Format3(mod_w), height |-> Format3(mod_h) ] ] ]

\* Mutant of IsEmphasized: the lines are counted from 1.
IsEmphasized_from_one(line_num) == (line_num + 1) % 4 = 0

\* Lines 423-425 and 526: every 4th line, counted from 0, is emphasized.
IsEmphasized(line_num) == line_num % 4 = 0

\* epsilon = 0.01, in thousandths of a point.
Epsilon == 10

\* A float comparison a <= b of two sums: when the exact values are equal
\* the accumulated rounding errors decide, so tie is either outcome.
FloatLe(a, b, tie) == a < b \/ (a = b /\ tie)

\* Lines 417-434: the while loop of generate_baselines_svg, from current_y
\* on, for grid_unit > 0. Pass k (k = 0, 1, ...) has current_y + k *
\* grid_unit for its current_y; the loop makes the passes for which the
\* condition of line 420 holds, and these are the first passes because
\* current_y grows.
BaselinesSvgLoop(current_y, w, h, margin_left, margin_right, margin_top, margin_bottom, grid_unit, tie) ==
    LET limit  == h - margin_bottom + Epsilon
        most   == IF limit < current_y THEN 0 ELSE (limit - current_y) \div grid_unit + 1
        passes == { k \in 0..most : FloatLe(current_y + k * grid_unit, limit, tie) }
    IN  [ i \in 1..Cardinality(passes) |->
            LET y_pos    == current_y + (i - 1) * grid_unit
                line_num == Round(y_pos - margin_top, grid_unit)
            IN  [ x1 |-> Format3(margin_left), y1 |-> Format3(y_pos),
                  x2 |-> Format3(w - margin_right), y2 |-> Format3(y_pos),
                  stroke         |-> IF IsEmphasized(line_num) THEN "magenta" ELSE "blue",
                  stroke_width   |-> IF IsEmphasized(line_num) THEN "0.3" ELSE "0.15",
                  stroke_opacity |-> IF IsEmphasized(line_num) THEN "0.6" ELSE "0.3" ] ]

\* Lines 405-440: the page, the margin rectangle and the baseline lines of
\* the SVG, lengths in thousandths of a point. (The label of line 438 is
\* left out.) tie: the outcome of the loop's float comparison on equal values.
generate_baselines_svg(w, h, margin_left, margin_right, margin_top, margin_bottom, grid_unit, tie) ==
    [ width   |-> Format3(w),
      height  |-> Format3(h),
      margins |->
        [ x      |-> Format3(margin_left),
          y      |-> Format3(margin_top),
          width  |-> Format3(w - margin_left - margin_right),
          height |-> Format3(h - margin_top - margin_bottom) ],
      lines   |-> BaselinesSvgLoop(margin_top, w, h, margin_left, margin_right,
                                   margin_top, margin_bottom, grid_unit, tie) ]

----------------------------------------------------------------------------
(* The composite PDF *)

\* Mutant of IsShaded: whole rows are shaded alternately.
IsShaded_by_row(r, c) == r % 2 = 0

\* Line 503: the modules that get the light gray background.
IsShaded(r, c) == (r + c) % 2 = 0

\* Lines 504-506 and 513-515: the rectangle of the module of row r and
\* column c, as passed to pdf.rect (x, y is the lower left corner; the PDF
\* y axis grows upwards from the page bottom).
PdfModuleRect(r, c, h, margin_left, margin_top, mod_w, mod_h, grid_margin_horizontal, grid_margin_vertical) ==
    [ x      |-> margin_left + c * (mod_w + grid_margin_horizontal),
      y      |-> h - margin_top - (r + 1) * (mod_h + grid_margin_vertical),
      width  |-> mod_w,
      height |-> mod_h ]

\* Lines 521-534: the while loop over the baselines, from current_y on, with
\* epsilon = 0.01 (line 522), for grid_unit > 0. Pass k (k = 0, 1, ...) has
\* current_y - k * grid_unit for its current_y; the loop makes the passes
\* for which the condition of line 523 holds, and these are the first passes
\* because current_y falls.
PdfBaselineLoop(current_y, w, h, grid_unit, tie) ==
    LET most   == IF current_y + Epsilon < 0 THEN 0 ELSE (current_y + Epsilon) \div grid_unit + 1
        passes == { k \in 0..most : FloatLe(0 - Epsilon, current_y - k * grid_unit, tie) }
    IN  [ i \in 1..Cardinality(passes) |->
            LET y        == current_y - (i - 1) * grid_unit
                line_num == Round(h - y, grid_unit)
            IN  [ x1 |-> 0, y1 |-> y, x2 |-> w, y2 |-> y,
                  line_width |-> IF IsEmphasized(line_num) THEN "0.25" ELSE "0.15",
                  alpha      |-> IF IsEmphasized(line_num) THEN "1" ELSE "0.5" ] ]

\* Lines 449-561, the path that saves the document: what is on the canvas at
\* pdf.save(). Lengths in thousandths of a point; mod_w and mod_h are given
\* (export_swiss_assets passes them), so lines 492-496 do not run. tie: the
\* outcome of the loop's float comparison on equal values.
generate_baseline_grid_pdf(w, h, margin_left, margin_right, margin_top, margin_bottom, grid_unit, grid_margin_horizontal, grid_margin_vertical, grid_cols, grid_rows, mod_w, mod_h, tie) ==
    LET cells == [ i \in 1..(grid_rows * grid_cols) |->
                     [ r |-> (i - 1) \div grid_cols, c |-> (i - 1) % grid_cols ] ]
        Rect(cell) == PdfModuleRect(cell.r, cell.c, h, margin_left, margin_top, mod_w, mod_h,
                                    grid_margin_horizontal, grid_margin_vertical)
        Shaded(cell) == IsShaded(cell.r, cell.c)
        shaded_cells == SelectSeq(cells, Shaded)
        footer_line_height == 10 * MILLI
        footer_y_start == margin_bottom - 25 * MILLI
    IN  [ pagesize  |-> << w, h >>,
          fills     |-> [ i \in 1..Len(shaded_cells) |-> Rect(shaded_cells[i]) ],
          outlines  |-> [ i \in 1..Len(cells) |-> Rect(cells[i]) ],
          lines     |-> PdfBaselineLoop(h, w, h, grid_unit, tie),
          footer    |-> << [ x |-> margin_left, y |-> footer_y_start ],
                           [ x |-> margin_left, y |-> footer_y_start - footer_line_height ],
                           [ x |-> margin_left, y |-> footer_y_start - footer_line_height * 2 ] >> ]

----------------------------------------------------------------------------
(* The engine: generate_swiss_grid_assets *)

\* What a call that raised leaves behind: no summary, no outputs.
Nothing == <<>>

Raise(class, msg) ==
    [ raised |-> class, message |-> msg, locals |-> Nothing, summary |-> Nothing,
      outputs |-> {}, pdf_path |-> Nothing, typo_settings |-> Nothing ]

\* str.lower() on the names the engine accepts.
Lower(name) ==
    CASE name = "A0" -> "a0" [] name = "A1" -> "a1" [] name = "A2" -> "a2"
      [] name = "A3" -> "a3" [] name = "A4" -> "a4" [] name = "A5" -> "a5"
      [] name = "A6" -> "a6" [] OTHER -> name

\* Mutant of OutputPath: the baseline is truncated (int) instead of ":.0f".
OutputPath_truncated(format_name, orientation, grid_cols, grid_rows, margin_method, grid_unit, ext) ==
    [ format      |-> Lower(format_name),
      orientation |-> Lower(orientation),
      cols        |-> grid_cols,
      rows        |-> grid_rows,
      method      |-> margin_method,
      baseline    |-> Trunc(grid_unit, PT),
      ext         |-> ext ]

\* f"{base_filename}_grid.{ext}"; baseline is f"{grid_unit:.0f}".
OutputPath(format_name, orientation, grid_cols, grid_rows, margin_method, grid_unit, ext) ==
    [ format      |-> Lower(format_name),
      orientation |-> Lower(orientation),
      cols        |-> grid_cols,
      rows        |-> grid_rows,
      method      |-> margin_method,
      baseline    |-> Round(grid_unit, PT),
      ext         |-> ext ]

\* Mutant of SnapToBaseline: snaps to the A4 baseline instead of the current one.
SnapToBaseline_a4(margin, grid_unit) == Round(margin, BASE_GRID_UNIT) * BASE_GRID_UNIT

\* Lines 966-967: snap a margin to the baseline grid.
SnapToBaseline(margin, grid_unit) == Round(margin, grid_unit) * grid_unit

\* Mutant of ModuleWidth: one gutter per column instead of one between columns.
ModuleWidth_gutter_per_col(net_w, grid_cols, grid_margin_horizontal) ==
    [ num |-> net_w - grid_cols * grid_margin_horizontal, den |-> grid_cols ]

\* Line 977: the module width, as an exact fraction.
ModuleWidth(net_w, grid_cols, grid_margin_horizontal) ==
    [ num |-> net_w - (grid_cols - 1) * grid_margin_horizontal, den |-> grid_cols ]

\* Mutant of BaselineUnitsPerCell: the minimum of 2 is forgotten.
BaselineUnitsPerCell_no_min(total_vertical_units, grid_rows) ==
    Trunc(total_vertical_units, grid_rows)

\* Mutant of BaselineUnitsPerCell: units per cell rounded to nearest.
BaselineUnitsPerCell_rounded(total_vertical_units, grid_rows) ==
    LET units_per_cell == Round(total_vertical_units, grid_rows)
    IN  IF units_per_cell < 2 THEN 2 ELSE units_per_cell

\* Mutant of BaselineUnitsPerCell: units per cell rounded up.
BaselineUnitsPerCell_ceiling(total_vertical_units, grid_rows) ==
    LET units_per_cell == Trunc(total_vertical_units + grid_rows - 1, grid_rows)
    IN  IF units_per_cell < 2 THEN 2 ELSE units_per_cell

\* Lines 981-986: int(total_vertical_units / grid_rows), at least 2.
BaselineUnitsPerCell(total_vertical_units, grid_rows) ==
    LET units_per_cell == Trunc(total_vertical_units, grid_rows)
    IN  IF units_per_cell < 2 THEN 2 ELSE units_per_cell

\* Mutant of NetHeightAligned: one gutter per row instead of one between rows.
NetHeightAligned_gutter_per_row(grid_rows, mod_h, grid_margin_vertical) ==
    grid_rows * mod_h + grid_rows * grid_margin_vertical

\* Line 993: the height of the rows and the gutters between them.
NetHeightAligned(grid_rows, mod_h, grid_margin_vertical) ==
    grid_rows * mod_h + (grid_rows - 1) * grid_margin_vertical

\* Mutant of TypographyScaleFactor: an override scales the type with the baseline.
TypographyScaleFactor_baseline(custom_baseline, format_scale_factor) ==
    IF custom_baseline # None
    THEN MulDivRound(custom_baseline[1], SF, BASE_GRID_UNIT)
    ELSE format_scale_factor

\* Lines 936-942: the scale factor of the typography is the format's, with
\* or without a baseline override.
TypographyScaleFactor(custom_baseline, format_scale_factor) ==
    IF custom_baseline # None THEN format_scale_factor ELSE format_scale_factor

\* Lines 927-1032: the computation once the inputs are validated and the
\* grid unit is not zero.
ComputeGrid(format_name, margin_method, orientation, grid_cols, grid_rows, custom_baseline) ==
    LET wh == PageSize(format_name, orientation)
        w  == wh[1] * MILLI
        h  == wh[2] * MILLI
        format_scale_factor == calculate_scale_factor(format_name, orientation)
        grid_unit ==
            IF custom_baseline # None THEN custom_baseline[1]
            ELSE Round((BASE_GRID_UNIT \div PT) * format_scale_factor, SF \div PT)
        scale_factor == TypographyScaleFactor(custom_baseline, format_scale_factor)
        base_gutter  == Round((BASE_GUTTER \div PT) * scale_factor, SF \div PT)
        proposed == MARGIN_CALCULATORS(margin_method, grid_unit, w, h, grid_cols, grid_rows)
        grid_margin_horizontal == proposed.grid_margin_horizontal
        grid_margin_vertical   == proposed.grid_margin_vertical
        gutter == grid_margin_horizontal
        typo_settings == generate_typography_styles(scale_factor, grid_unit, format_name)
        margin_left  == proposed.margin_left
        margin_right == proposed.margin_right
        margin_top   == SnapToBaseline(proposed.margin_top, grid_unit)
        margin_bottom_snapped == SnapToBaseline(proposed.margin_bottom, grid_unit)
        net_w == w - (margin_left + margin_right)
        net_h == h - (margin_top + margin_bottom_snapped)
        mod_w == ModuleWidth(net_w, grid_cols, grid_margin_horizontal)
        total_vertical_units == Round(net_h, grid_unit)
        baseline_units_per_cell == BaselineUnitsPerCell(total_vertical_units, grid_rows)
        cell_height == baseline_units_per_cell * grid_unit
        mod_h == cell_height - grid_margin_vertical
        net_h_aligned == NetHeightAligned(grid_rows, mod_h, grid_margin_vertical)
        margin_bottom == h - margin_top - net_h_aligned
        json_path == OutputPath(format_name, orientation, grid_cols, grid_rows, margin_method, grid_unit, "json")
        txt_path  == OutputPath(format_name, orientation, grid_cols, grid_rows, margin_method, grid_unit, "txt")
        pdf       == OutputPath(format_name, orientation, grid_cols, grid_rows, margin_method, grid_unit, "pdf")
        built == build_summary(format_name, orientation, margin_method, grid_cols, grid_rows,
                               w, h, grid_unit, grid_margin_horizontal, grid_margin_vertical,
                               margin_top, margin_bottom, margin_left, margin_right, gutter,
                               net_w, net_h_aligned, mod_w, mod_h, typo_settings, scale_factor,
                               json_path, pdf, baseline_units_per_cell)
    IN  [ raised  |-> "none",
          message |-> Nothing,
          locals  |->
            [ w |-> w, h |-> h,
              format_scale_factor |-> format_scale_factor,
              scale_factor |-> scale_factor,
              grid_unit |-> grid_unit,
              base_gutter |-> base_gutter,
              proposed |-> proposed,
              grid_margin_horizontal |-> grid_margin_horizontal,
              grid_margin_vertical |-> grid_margin_vertical,
              gutter |-> gutter,
              margin_top |-> margin_top,
              margin_bottom_snapped |-> margin_bottom_snapped,
              margin_left |-> margin_left,
              margin_right |-> margin_right,
              net_w |-> net_w,
              net_h |-> net_h,
              mod_w |-> mod_w,
              total_vertical_units |-> total_vertical_units,
              baseline_units_per_cell |-> baseline_units_per_cell,
              cell_height |-> cell_height,
              mod_h |-> mod_h,
              net_h_aligned |-> net_h_aligned,
              margin_bottom |-> margin_bottom ],
          summary |-> [built EXCEPT !.outputs =
                         [ grid_json |-> json_path, baseline_grid_pdf |-> pdf, grid_txt |-> txt_path ]],
          outputs |-> {json_path, txt_path},
          pdf_path |-> pdf,
          typo_settings |-> typo_settings ]

\* Mutant of generate_swiss_grid_assets: the orientation is not validated.
generate_swiss_grid_assets_any_orientation(format_name, margin_method, orientation, grid_cols, grid_rows, custom_baseline) ==
    IF format_name \notin DOMAIN FORMATS_PT
    THEN Raise("ValueError", [ text |-> "Unsupported format", got |-> <<format_name>>, use |-> FORMATS_PT_keys ])
    ELSE IF margin_method \notin MARGIN_METHODS
    THEN Raise("ValueError", [ text |-> "Unsupported margin method", got |-> <<margin_method>>, use |-> <<1, 2, 3>> ])
    ELSE IF grid_cols < 1 \/ grid_rows < 1
    THEN Raise("ValueError", [ text |-> "Grid dimensions must be positive integers", got |-> <<grid_cols, grid_rows>>, use |-> <<>> ])
    ELSE IF custom_baseline # None /\ custom_baseline[1] = 0
    THEN Raise("ZeroDivisionError", [ text |-> "float division by zero", got |-> <<>>, use |-> <<>> ])
    ELSE ComputeGrid(format_name, margin_method, orientation, grid_cols, grid_rows, custom_baseline)

generate_swiss_grid_assets(format_name, margin_method, orientation, grid_cols, grid_rows, custom_baseline) ==
    IF format_name \notin DOMAIN FORMATS_PT
    THEN Raise("ValueError", [ text |-> "Unsupported format", got |-> <<format_name>>, use |-> FORMATS_PT_keys ])
    ELSE IF margin_method \notin MARGIN_METHODS
    THEN Raise("ValueError", [ text |-> "Unsupported margin method", got |-> <<margin_method>>, use |-> <<1, 2, 3>> ])
    ELSE IF grid_cols < 1 \/ grid_rows < 1
    THEN Raise("ValueError", [ text |-> "Grid dimensions must be positive integers", got |-> <<grid_cols, grid_rows>>, use |-> <<>> ])
    ELSE IF orientation \notin {"portrait", "landscape"}
    THEN Raise("ValueError", [ text |-> "Unsupported orientation", got |-> <<orientation>>, use |-> <<"portrait", "landscape">> ])
    ELSE IF custom_baseline # None /\ custom_baseline[1] = 0
    THEN Raise("ZeroDivisionError", [ text |-> "float division by zero", got |-> <<>>, use |-> <<>> ])
    ELSE ComputeGrid(format_name, margin_method, orientation, grid_cols, grid_rows, custom_baseline)

----------------------------------------------------------------------------
(* The calls and their inputs *)

\* The defaults of generate_swiss_grid_assets' grid_cols and grid_rows.
DefaultGridCols == 9
DefaultGridRows == 9

\* The formats up to A3, and a name that FORMATS_PT does not have.
FormatInputs      == {"A6", "A5", "A4", "A3", "B5"}
MethodInputs      == MARGIN_METHODS \cup {0, 4}
OrientationInputs == {"portrait", "landscape", "square"}
ColInputs         == 0..MaxCols \cup {DefaultGridCols}
RowInputs         == 0..MaxRows \cup {DefaultGridRows}
\* No override, 0, -12pt, 8.5039pt (3 mm), 24pt, 72pt.
BaselineInputs    == {None} \cup {Some(b) : b \in {0, -12 * PT, 85039, 24 * PT, 72 * PT}}

ArgInputs ==
    [ format_name     : FormatInputs,
      margin_method   : MethodInputs,
      orientation     : OrientationInputs,
      grid_cols       : ColInputs,
      grid_rows       : RowInputs,
      custom_baseline : BaselineInputs ]

\* Line 1024: txt_content = generate_text_format(summary), kept with the
\* locals of a call that returned.
WithTextContent(r) ==
    IF r.raised # "none" THEN r
    ELSE [r EXCEPT !.locals = [ txt_content |-> generate_text_format(r.summary) ] @@ r.locals]

Call(a) ==
    CHOOSE r \in { WithTextContent(x) :
                      x \in { generate_swiss_grid_assets(a.format_name, a.margin_method, a.orientation,
                                                         a.grid_cols, a.grid_rows, a.custom_baseline) } } : TRUE

Init ==
    /\ args \in ArgInputs
    /\ pc = "ready"
    /\ raised = "none"
    /\ message = Nothing
    /\ locals = Nothing
    /\ summary = Nothing
    /\ outputs = {}
    /\ pdf_path = Nothing
    /\ files = {}
    /\ stderr = {}
    /\ svg = Nothing
    /\ canvas = Nothing
    /\ result = Nothing
    /\ remote = Nothing
    /\ calls = << >>
    /\ connections = Nothing

\* A direct call of generate_swiss_grid_assets: it returns or raises, and
\* touches neither the disk nor stderr.
Generate ==
    /\ pc = "ready"
    /\ \E r \in {Call(args)} :
           /\ raised'   = r.raised
           /\ message'  = r.message
           /\ locals'   = r.locals
           /\ summary'  = r.summary
           /\ outputs'  = r.outputs
           /\ pdf_path' = r.pdf_path
    /\ pc' = "generated"
    /\ UNCHANGED <<args, files, stderr, svg, canvas, result, deploy_vars>>

\* export_swiss_assets when generate_swiss_grid_assets raises: the exception
\* propagates from line 1057, before any file is opened.
ExportRaises ==
    /\ pc = "ready"
    /\ \E r \in {Call(args)} :
           /\ r.raised # "none"
           /\ raised'   = r.raised
           /\ message'  = r.message
           /\ locals'   = r.locals
           /\ summary'  = r.summary
           /\ outputs'  = r.outputs
           /\ pdf_path' = r.pdf_path
    /\ pc' = "exported"
    /\ UNCHANGED <<args, files, stderr, svg, canvas, result, deploy_vars>>

\* Mutant of WriteOutputs: one try around the loop, the first IOError ends it.
WriteOutputs_abort_on_error(paths, io_fails) ==
    LET failing == { k \in DOMAIN paths : paths[k] \in io_fails }
        first   == IF failing = {} THEN Len(paths) + 1
                   ELSE CHOOSE k \in failing : \A m \in failing : k <= m
    IN  [ files  |-> { paths[k] : k \in { m \in DOMAIN paths : m < first } },
          stderr |-> { [ text |-> "Error writing", path |-> paths[k] ] :
                          k \in { m \in DOMAIN paths : m = first } } ]

\* Lines 1061-1067: the loop over outputs.items(), each path in its own try;
\* open/write raises IOError for the paths of io_fails.
WriteOutputs(paths, io_fails) ==
    [ files  |-> { paths[k] : k \in { m \in DOMAIN paths : paths[m] \notin io_fails } },
      stderr |-> { [ text |-> "Error writing", path |-> paths[k] ] :
                      k \in { m \in DOMAIN paths : paths[m] \in io_fails } } ]

\* export_swiss_assets when the engine returns, lines 1057-1067: the outputs
\* are written in the order of the dict (json, txt); the PDF is not yet
\* attempted.
ExportWrites ==
    /\ pc = "ready"
    /\ \E r \in {Call(args)} :
           /\ r.raised = "none"
           /\ raised'   = r.raised
           /\ message'  = r.message
           /\ locals'   = r.locals
           /\ summary'  = r.summary
           /\ outputs'  = r.outputs
           /\ pdf_path' = r.pdf_path
           /\ \E io_fails \in SUBSET r.outputs :
              \E wr \in {WriteOutputs(<<r.summary.outputs.grid_json, r.summary.outputs.grid_txt>>, io_fails)} :
                 /\ files'  = files \cup wr.files
                 /\ stderr' = stderr \cup wr.stderr
    /\ pc' = "written"
    /\ UNCHANGED <<args, svg, canvas, result, deploy_vars>>

\* export_swiss_assets, lines 1069-1095: the PDF is attempted and the summary
\* and outputs are returned. pdf is the outcome of generate_baseline_grid_pdf:
\* "no_reportlab" (ImportError, False), "exception" (caught, False), "saved"
\* (True), or "looping" when the function has entered the baseline loop of
\* lines 521-534 with grid_unit < 0. The function prints its own notes on
\* stderr (lines 485-486 and 560) before export_swiss_assets prints the
\* warning.
ExportPdf ==
    /\ pc = "written"
    /\ \E pdf \in {"no_reportlab", "exception", "saved", "looping"}, tie \in BOOLEAN :
           /\ pdf = "saved" => summary.grid.grid_unit > 0
           /\ pdf = "looping" => summary.grid.grid_unit < 0
           /\ files' = files \cup (IF pdf = "saved" THEN {pdf_path} ELSE {})
           /\ stderr' = stderr
                 \cup (IF pdf = "no_reportlab"
                       THEN { [ text |-> "Note: reportlab not installed. PDF export skipped.", path |-> Nothing ],
                              [ text |-> "Install with: pip install reportlab", path |-> Nothing ] }
                       ELSE {})
                 \cup (IF pdf = "exception"
                       THEN { [ text |-> "Error generating PDF", path |-> Nothing ] }
                       ELSE {})
                 \cup (IF pdf \in {"no_reportlab", "exception"}
                       THEN { [ text |-> "Warning: Failed to generate PDF", path |-> pdf_path ] }
                       ELSE {})
           /\ canvas' = IF pdf = "saved"
                         THEN generate_baseline_grid_pdf(
                                  summary.page_size_pt.width, summary.page_size_pt.height,
                                  summary.grid.margins.left, summary.grid.margins.right,
                                  summary.grid.margins.top, summary.grid.margins.bottom,
                                  summary.grid.grid_unit,
                                  summary.grid.grid_margin_horizontal, summary.grid.grid_margin_vertical,
                                  summary.settings.grid_cols, summary.settings.grid_rows,
                                  summary.module.width, summary.module.height, tie)
                         ELSE IF pdf = "looping" THEN [ line_num_mod_4 |-> 0 ]
                         ELSE canvas
           /\ pc' = IF pdf = "looping" THEN "drawing" ELSE "exported"
    /\ UNCHANGED <<args, raised, message, locals, summary, outputs, pdf_path, svg, result, deploy_vars>>

\* One pass of the baseline loop of lines 523-534 when grid_unit < 0:
\* current_y = h - k * grid_unit is at or above the page top for every
\* k >= 0, so the condition of line 523 holds on every pass. Of the pass
\* count k only k mod 4 is kept, which decides the stroke; current_y is
\* that of the first pass with this remainder.
PdfBaselinePass ==
    /\ pc = "drawing"
    /\ summary.grid.grid_unit < 0
    /\ LET h == summary.page_size_pt.height
           current_y == h - canvas.line_num_mod_4 * summary.grid.grid_unit
       IN  /\ 0 - Epsilon <= current_y
           /\ canvas' = [ line_num_mod_4 |-> (canvas.line_num_mod_4 + 1) % 4 ]
    /\ UNCHANGED <<args, pc, raised, message, locals, summary, outputs, pdf_path, files, stderr, svg, result, deploy_vars>>

\* A call of generate_grid_gutters_svg with the values of a returned summary
\* (as export_swiss_assets passes them to the PDF); the function takes one
\* count, grid_modules, for which the caller has the columns or the rows.
DrawGridGutters ==
    /\ pc = "generated"
    /\ raised = "none"
    /\ \E grid_modules \in {summary.settings.grid_cols, summary.settings.grid_rows} :
           svg' = generate_grid_gutters_svg(
                      summary.page_size_pt.width, summary.page_size_pt.height,
                      summary.grid.margins.left, summary.grid.margins.right,
                      summary.grid.margins.top, summary.grid.margins.bottom,
                      summary.module.width, summary.module.height, grid_modules,
                      summary.grid.grid_margin_horizontal, summary.grid.grid_margin_vertical)
    /\ pc' = "drawn"
    /\ UNCHANGED <<args, raised, message, locals, summary, outputs, pdf_path, files, stderr, canvas, result, deploy_vars>>

\* A call of generate_baselines_svg with the values of a returned summary and
\* a positive grid unit: the loop of lines 417-434 ends.
DrawBaselines ==
    /\ pc = "generated"
    /\ raised = "none"
    /\ summary.grid.grid_unit > 0
    /\ \E tie \in BOOLEAN :
           svg' = generate_baselines_svg(
                      summary.page_size_pt.width, summary.page_size_pt.height,
                      summary.grid.margins.left, summary.grid.margins.right,
                      summary.grid.margins.top, summary.grid.margins.bottom,
                      summary.grid.grid_unit, tie)
    /\ pc' = "drawn_baselines"
    /\ UNCHANGED <<args, raised, message, locals, summary, outputs, pdf_path, files, stderr, canvas, result, deploy_vars>>

Next ==
    \/ Generate
    \/ ExportRaises
    \/ ExportWrites
    \/ ExportPdf
    \/ PdfBaselinePass
    \/ DrawGridGutters
    \/ DrawBaselines

Spec == Init /\ [][Next]_vars

\* The program is a single synchronous thread that the interpreter keeps
\* running: a call that has a next step takes it.
----------------------------------------------------------------------------
(* export_swiss_assets run to its end *)

\* A4 and A6 pages; no override, -12pt, 8.5039pt, 24pt.
ExportInputs ==
    { a \in ArgInputs :
        /\ a.format_name \in {"A4", "A6"}
        /\ a.margin_method \in MARGIN_METHODS
        /\ a.orientation \in {"portrait", "landscape"}
        /\ a.grid_cols \in 0..MaxCols
        /\ a.grid_rows \in 1..MaxRows
        /\ a.custom_baseline \in {None, Some(-12 * PT), Some(85039), Some(24 * PT)} }

InitExport ==
    /\ args \in ExportInputs
    /\ pc = "ready"
    /\ raised = "none"
    /\ message = Nothing
    /\ locals = Nothing
    /\ summary = Nothing
    /\ outputs = {}
    /\ pdf_path = Nothing
    /\ files = {}
    /\ stderr = {}
    /\ svg = Nothing
    /\ canvas = Nothing
    /\ result = Nothing
    /\ remote = Nothing
    /\ calls = << >>
    /\ connections = Nothing

NextExport == ExportRaises \/ ExportWrites \/ ExportPdf \/ PdfBaselinePass

\* The program is a single synchronous thread that the interpreter keeps
\* running: once the outputs are written the attempt at the PDF follows, and
\* a baseline loop whose condition holds makes its next pass.
SpecExport ==
    InitExport /\ [][NextExport]_vars /\ WF_vars(ExportPdf) /\ WF_vars(PdfBaselinePass)

----------------------------------------------------------------------------
(* The margin strategies called on their own *)

MaxMultiple == 3

\* 12pt, 8.5039pt (3 mm), 24pt, -12pt.
StrategyGridUnits == {12 * PT, 85039, 24 * PT, -12 * PT}
StrategyPages ==
    { [ w |-> PageSize(f, o)[1] * MILLI, h |-> PageSize(f, o)[2] * MILLI ] :
        f \in {"A6", "A4", "A3"}, o \in {"portrait", "landscape"} }

StrategyInputs ==
    [ strategy          : MARGIN_METHODS,
      grid_unit         : StrategyGridUnits,
      page              : StrategyPages,
      grid_cols         : 1..MaxCols,
      grid_rows         : 1..MaxRows,
      baseline_multiple : 1..MaxMultiple ]

InitMargins ==
    /\ args \in StrategyInputs
    /\ pc = "strategy_ready"
    /\ raised = "none"
    /\ message = Nothing
    /\ locals = Nothing
    /\ summary = Nothing
    /\ outputs = {}
    /\ pdf_path = Nothing
    /\ files = {}
    /\ stderr = {}
    /\ svg = Nothing
    /\ canvas = Nothing
    /\ result = Nothing
    /\ remote = Nothing
    /\ calls = << >>
    /\ connections = Nothing

\* A call of calculate_progressive_margins; locals holds the returned tuple.
CallProgressive ==
    /\ pc = "strategy_ready"
    /\ args.strategy = 1
    /\ locals' = calculate_progressive_margins(args.grid_unit, args.page.w, args.page.h,
                      args.grid_cols, args.grid_rows, args.baseline_multiple)
    /\ pc' = "strategy_returned"
    /\ UNCHANGED <<args, raised, message, summary, outputs, pdf_path, files, stderr, svg, canvas, result, deploy_vars>>

\* A call of calculate_vandegraaf_margins.
CallVanDeGraaf ==
    /\ pc = "strategy_ready"
    /\ args.strategy = 2
    /\ locals' = calculate_vandegraaf_margins(args.grid_unit, args.page.w, args.page.h,
                      args.grid_cols, args.grid_rows, args.baseline_multiple)
    /\ pc' = "strategy_returned"
    /\ UNCHANGED <<args, raised, message, summary, outputs, pdf_path, files, stderr, svg, canvas, result, deploy_vars>>

\* A call of calculate_grid_based_margins.
CallGridBased ==
    /\ pc = "strategy_ready"
    /\ args.strategy = 3
    /\ locals' = calculate_grid_based_margins(args.grid_unit, args.page.w, args.page.h,
                      args.grid_cols, args.grid_rows, args.baseline_multiple)
    /\ pc' = "strategy_returned"
    /\ UNCHANGED <<args, raised, message, summary, outputs, pdf_path, files, stderr, svg, canvas, result, deploy_vars>>

NextMargins == CallProgressive \/ CallVanDeGraaf \/ CallGridBased

SpecMargins == InitMargins /\ [][NextMargins]_vars

----------------------------------------------------------------------------
(* The interactive menu: select_option *)

MaxOptions == 4

\* The option lists of a menu, by length (the format menu's first entries).
MenuOptions ==
    { SubSeq(<<"A4", "A5", "A6", "A3", "A2">>, 1, n) : n \in 1..MaxOptions }

MenuInputs ==
    { a \in [ options : MenuOptions, default_index : 0..(MaxOptions - 1) ] :
        a.default_index < Len(a.options) }

\* What read_single_key returns: the arrows are the escape sequences
\* "\x1b[A" (up), "\x1b[B" (down), "\x1b[C" (right); "CR" is "\r", "LF" is
\* "\n", "ETX" is "\x03" (Ctrl+C).
Keys == {"ESC[A", "k", "ESC[B", "j", "CR", "LF", "ETX", "ESC[C", "x"}

\* Mutant of IndexUp: the highlight stops at the first option.
IndexUp_clamped(index, options) == IF index = 0 THEN 0 ELSE index - 1

\* Line 1143: index = (index - 1) % len(options).
IndexUp(index, options) == (index - 1) % Len(options)

\* Line 1145: index = (index + 1) % len(options).
IndexDown(index, options) == (index + 1) % Len(options)

\* Lines 1124-1125: select_option has been called and is about to draw the
\* menu for the first time.
InitMenu ==
    /\ args \in MenuInputs
    /\ pc = "menu"
    /\ raised = "none"
    /\ locals = [ index |-> args.default_index, key |-> Nothing ]
    /\ result = Nothing
    /\ message = Nothing
    /\ summary = Nothing
    /\ outputs = {}
    /\ pdf_path = Nothing
    /\ files = {}
    /\ stderr = {}
    /\ svg = Nothing
    /\ canvas = Nothing
    /\ remote = Nothing
    /\ calls = << >>
    /\ connections = Nothing

\* Lines 1127-1150: one pass of the loop: the menu is drawn with the option
\* at index highlighted, a key is read and acted on. Python's list index is
\* from 0, the sequence's from 1.
ReadKey ==
    /\ pc = "menu"
    /\ \E key \in Keys :
          /\ locals' = [ index |-> IF key \in {"ESC[A", "k"} THEN IndexUp(locals.index, args.options)
                                   ELSE IF key \in {"ESC[B", "j"} THEN IndexDown(locals.index, args.options)
                                   ELSE locals.index,
                         key   |-> key ]
          /\ IF key \in {"ESC[A", "k", "ESC[B", "j"}
             THEN UNCHANGED <<pc, result, raised>>
             ELSE IF key \in {"CR", "LF"}
             THEN /\ result' = args.options[locals.index + 1]
                  /\ pc' = "menu_returned"
                  /\ UNCHANGED raised
             ELSE IF key = "ETX"
             THEN /\ raised' = "KeyboardInterrupt"
                  /\ pc' = "menu_raised"
                  /\ UNCHANGED result
             ELSE UNCHANGED <<pc, result, raised>>
    /\ UNCHANGED <<args, export_vars, deploy_vars>>

NextMenu == ReadKey

SpecMenu == InitMenu /\ [][NextMenu]_vars

----------------------------------------------------------------------------
(* The deployment script: src/deploy.py *)

\* A path string is held as the pieces between its slashes, as str.split("/")
\* gives them: "/site/a" is <<"", "site", "a">>, "/site/" is
\* <<"", "site", "">>, "/" is <<"", "">> and "" is <<"">>.
RECURSIVE RStripSlash(_)
\* str.rstrip("/").
RStripSlash(path) ==
    IF Len(path) > 1 /\ path[Len(path)] = ""
    THEN RStripSlash(SubSeq(path, 1, Len(path) - 1))
    ELSE path

RECURSIVE LStripSlash(_)
\* str.lstrip("/").
LStripSlash(path) ==
    IF Len(path) > 1 /\ path[1] = "" THEN LStripSlash(Tail(path)) ELSE path

\* str.strip("/").
StripSlash(path) == LStripSlash(RStripSlash(path))

\* posixpath.join(a, b) for a relative b.
Join(a, b) ==
    IF a = <<"">> THEN b
    ELSE IF a[Len(a)] = "" THEN SubSeq(a, 1, Len(a) - 1) \o b
    ELSE a \o b

\* posixpath.dirname(p): everything up to the last slash, without trailing
\* slashes unless it consists of slashes only.
Dirname(p) ==
    IF Len(p) = 1 THEN <<"">>
    ELSE LET head == SubSeq(p, 1, Len(p) - 1) \o <<"">>
         IN  IF \A i \in DOMAIN head : head[i] = "" THEN head ELSE RStripSlash(head)

\* The file or directory of the server that a path names: its non-empty
\* pieces, from the server's root (the paths here are absolute).
NodeOf(path) ==
    LET NonEmpty(piece) == piece # ""
    IN  SelectSeq(path, NonEmpty)

\* The names the server lists, in the order it lists them.
Names == <<"a", "b", "site", "other", "x", "y", "z">>

IsBeneath(node, dir) ==
    Len(node) > Len(dir) /\ SubSeq(node, 1, Len(dir)) = dir

IsChild(node, dir) == IsBeneath(node, dir) /\ Len(node) = Len(dir) + 1

\* The server's answer to each SFTP request: whether it can be done on the
\* file system fs ...
SftpPossible(fs, op, node) ==
    CASE op = "listdir_attr" -> node \in fs.dirs
      [] op = "stat"   -> node \in fs.dirs \cup fs.files
      [] op = "rmdir"  -> node \in fs.dirs /\ node # <<>>
                             /\ ~ \E n \in fs.dirs \cup fs.files : IsChild(n, node)
      [] op = "remove" -> node \in fs.files
      [] op = "mkdir"  -> node \notin fs.dirs \cup fs.files
                             /\ SubSeq(node, 1, Len(node) - 1) \in fs.dirs
      [] op = "put"    -> node # <<>> /\ node \notin fs.dirs
                             /\ SubSeq(node, 1, Len(node) - 1) \in fs.dirs

\* ... and what it does to the file system.
SftpEffect(fs, op, node) ==
    CASE op = "rmdir"  -> [ fs EXCEPT !.dirs = @ \ {node} ]
      [] op = "remove" -> [ fs EXCEPT !.files = @ \ {node} ]
      [] op = "mkdir"  -> [ fs EXCEPT !.dirs = @ \cup {node} ]
      [] op = "put"    -> [ fs EXCEPT !.files = @ \cup {node} ]
      [] OTHER         -> fs

\* One call of a paramiko.SFTPClient method. st holds the server's file
\* system, the calls so far and the exception being raised; the call whose
\* number is st.fail_at fails whatever the file system (the connection
\* drops, a permission is missing). A failed call raises IOError.
SftpCall(st, op, path) ==
    LET node == NodeOf(path)
        ok   == SftpPossible(st.remote, op, node) /\ Len(st.calls) + 1 # st.fail_at
    IN  [ st EXCEPT !.remote = IF ok THEN SftpEffect(@, op, node) ELSE @,
                    !.calls  = Append(@, [ op |-> op, path |-> node, ok |-> ok ]),
                    !.raised = IF ok THEN "none" ELSE "IOError" ]

\* Lines 167-179, the loop over parts: stat each prefix, mkdir the missing.
RECURSIVE EnsureLoop(_, _, _, _)
EnsureLoop(st, cur, parts, dry_run) ==
    IF parts = << >> \/ st.raised # "none" THEN st
    ELSE LET next   == Join(cur, << Head(parts) >>)
             probed == SftpCall(st, "stat", next)
             made   == IF probed.raised = "none" THEN probed
                       ELSE IF dry_run THEN [ probed EXCEPT !.raised = "none" ]
                       ELSE SftpCall([ probed EXCEPT !.raised = "none" ], "mkdir", next)
         IN  EnsureLoop(made, next, Tail(parts), dry_run)

\* Lines 167-179.
ensure_remote_dir(st, remote_dir, dry_run) ==
    EnsureLoop(st, <<"", "">>, StripSlash(remote_dir), dry_run)

\* list_remote_dir's result: the attributes of the entries of a directory.
Entries(fs, dir) ==
    LET Listed(name) == Append(dir, name) \in fs.dirs \cup fs.files
        listed == SelectSeq(Names, Listed)
    IN  [ i \in DOMAIN listed |->
            [ filename |-> listed[i], is_dir |-> Append(dir, listed[i]) \in fs.dirs ] ]

\* Mutant of IsUnsafeRoot: only the empty path is refused, before stripping.
IsUnsafeRoot_empty_only(remote_dir) == remote_dir = <<"">>

\* Lines 203-206: the safety guard, on the path without trailing slashes.
IsUnsafeRoot(remote_dir) == RStripSlash(remote_dir) \in { <<"">>, <<"", "">> }

RECURSIVE rm_remote_tree_contents(_, _, _)
RECURSIVE RmEntries(_, _, _, _)
\* Lines 213-226: the loop over the listed entries.
RmEntries(st, normalized, entries, dry_run) ==
    IF entries = << >> \/ st.raised # "none" THEN st
    ELSE LET attr == Head(entries)
             full == Join(normalized, << attr.filename >>)
             done == IF attr.is_dir
                     THEN LET inner == rm_remote_tree_contents(st, full, dry_run)
                          IN  IF inner.raised # "none" \/ dry_run THEN inner
                              ELSE SftpCall(inner, "rmdir", full)
                     ELSE IF dry_run THEN st ELSE SftpCall(st, "remove", full)
         IN  RmEntries(done, normalized, Tail(entries), dry_run)

\* Lines 194-226.
rm_remote_tree_contents(st, remote_dir, dry_run) ==
    LET normalized == RStripSlash(remote_dir)
    IN  IF IsUnsafeRoot(remote_dir) THEN [ st EXCEPT !.raised = "ValueError" ]
        ELSE LET listed == SftpCall(st, "listdir_attr", normalized)
             IN  IF listed.raised # "none" THEN [ listed EXCEPT !.raised = "RuntimeError" ]
                 ELSE RmEntries(listed, normalized,
                                Entries(listed.remote, NodeOf(normalized)), dry_run)

\* Mutant of MakeMissingDir: the directory is made in a dry run too.
MakeMissingDir_always(st, remote_dir, dry_run) == ensure_remote_dir(st, remote_dir, FALSE)

\* Lines 283-290 and 295-301: after sftp.stat has raised IOError, print in a
\* dry run, make the directory otherwise.
MakeMissingDir(st, remote_dir, dry_run) ==
    IF dry_run THEN st ELSE ensure_remote_dir(st, remote_dir, FALSE)

\* Line 283: sorted(dirs, key=lambda x: x[1].count("/")), a stable sort; d is
\* the count of slashes being collected.
RECURSIVE SortedBySlashes(_, _)
SortedBySlashes(dirs, d) ==
    IF \A i \in DOMAIN dirs : Len(dirs[i]) - 1 < d THEN << >>
    ELSE LET HasCount(rdir) == Len(rdir) - 1 = d
         IN  SelectSeq(dirs, HasCount) \o SortedBySlashes(dirs, d + 1)

\* Lines 283-290: the loop that creates the directories.
RECURSIVE DirsLoop(_, _, _)
DirsLoop(st, dirs, dry_run) ==
    IF dirs = << >> \/ st.raised # "none" THEN st
    ELSE LET probed == SftpCall(st, "stat", Head(dirs))
             made   == IF probed.raised = "none" THEN probed
                       ELSE MakeMissingDir([ probed EXCEPT !.raised = "none" ], Head(dirs), dry_run)
         IN  DirsLoop(made, Tail(dirs), dry_run)

\* Lines 292-306: the loop that uploads the files.
RECURSIVE FilesLoop(_, _, _)
FilesLoop(st, rfiles, dry_run) ==
    IF rfiles = << >> \/ st.raised # "none" THEN st
    ELSE LET rfile   == Head(rfiles)
             rparent == Dirname(rfile)
             probed  == SftpCall(st, "stat", rparent)
             made    == IF probed.raised = "none" THEN probed
                        ELSE MakeMissingDir([ probed EXCEPT !.raised = "none" ], rparent, dry_run)
             put     == IF made.raised # "none" \/ dry_run THEN made
                        ELSE SftpCall(made, "put", rfile)
         IN  FilesLoop(put, Tail(rfiles), dry_run)

\* Lines 263-306. local is what iter_local_files yields: the relative paths
\* of the directories and files under local_root, in os.walk's order.
upload_tree(st, local, remote_root, dry_run) ==
    LET IsDir(item)  == item.is_dir
        IsFile(item) == ~ item.is_dir
        ldirs   == SelectSeq(local, IsDir)
        lfiles  == SelectSeq(local, IsFile)
        dirs    == [ i \in DOMAIN ldirs |-> Join(remote_root, ldirs[i].rel_posix) ]
        rfiles  == [ i \in DOMAIN lfiles |-> Join(remote_root, lfiles[i].rel_posix) ]
        ensured == ensure_remote_dir(st, remote_root, dry_run)
        created == DirsLoop(ensured, SortedBySlashes(dirs, 0), dry_run)
    IN  FilesLoop(created, rfiles, dry_run)

MaxFailAt == 8

\* File systems of the server: "/" with the directories /site and /other,
\* empty or filled two levels deep, or without /site.
RemoteTrees ==
    { [ dirs |-> { <<>>, <<"site">> }, files |-> {} ],
      [ dirs |-> { <<>>, <<"site">>, <<"other">> },
        files |-> { <<"site", "x">>, <<"other", "x">> } ],
      [ dirs |-> { <<>>, <<"site">>, <<"site", "a">>, <<"site", "a", "b">>, <<"site", "b">>, <<"other">> },
        files |-> { <<"site", "x">>, <<"site", "a", "y">>, <<"site", "a", "b", "z">>, <<"other", "x">> } ],
      [ dirs |-> { <<>>, <<"site">>, <<"site", "a">>, <<"other">>, <<"other", "a">> },
        files |-> { <<"site", "a", "x">>, <<"other", "a", "x">>, <<"x">> } ],
      [ dirs |-> { <<>>, <<"other">> }, files |-> { <<"other", "x">> } ] }

\* "", "/", "/site", "/site/", "/site/a", "/other/a/".
RemoteRoots ==
    { <<"">>, <<"", "">>, <<"", "site">>, <<"", "site", "">>, <<"", "site", "a">>,
      <<"", "other", "a", "">> }

\* What iter_local_files yields (lines 229-260) for a local root that is
\* empty, that holds the file x, that holds x, a/y and a/b/z, and that holds
\* a/b/z and b/y.
LocalTrees ==
    { << >>,
      << [ rel_posix |-> <<"x">>, is_dir |-> FALSE ] >>,
      << [ rel_posix |-> <<"x">>, is_dir |-> FALSE ],
         [ rel_posix |-> <<"a">>, is_dir |-> TRUE ],
         [ rel_posix |-> <<"a", "y">>, is_dir |-> FALSE ],
         [ rel_posix |-> <<"a", "b">>, is_dir |-> TRUE ],
         [ rel_posix |-> <<"a", "b", "z">>, is_dir |-> FALSE ] >>,
      << [ rel_posix |-> <<"a">>, is_dir |-> TRUE ],
         [ rel_posix |-> <<"a", "b">>, is_dir |-> TRUE ],
         [ rel_posix |-> <<"a", "b", "z">>, is_dir |-> FALSE ],
         [ rel_posix |-> <<"b">>, is_dir |-> TRUE ],
         [ rel_posix |-> <<"b", "y">>, is_dir |-> FALSE ] >> }

\* The arguments of a run (--remote, --dry-run), the local files, the
\* server's file system at the start and the number of the remote call that
\* fails (0: none fails).
DeployInputs ==
    [ remote_root : RemoteRoots,
      dry_run     : BOOLEAN,
      local       : LocalTrees,
      remote      : RemoteTrees,
      fail_at     : 0..MaxFailAt ]

\* The state with which the functions of deploy.py work on the server.
SftpState == [ remote |-> remote, calls |-> calls, raised |-> "none", fail_at |-> args.fail_at ]

\* main has parsed its arguments; nothing is connected. locals: whether
\* main's names ssh and sftp are bound, and the number of calls made when
\* the wipe had succeeded (0 before).
InitDeploy ==
    /\ args \in DeployInputs
    /\ pc = "deploy_ready"
    /\ raised = "none"
    /\ locals = [ bound |-> FALSE, wiped_at |-> 0 ]
    /\ result = Nothing
    /\ remote = args.remote
    /\ calls = << >>
    /\ connections = [ ssh |-> "unopened", sftp |-> "unopened" ]
    /\ message = Nothing
    /\ summary = Nothing
    /\ outputs = {}
    /\ pdf_path = Nothing
    /\ files = {}
    /\ stderr = {}
    /\ svg = Nothing
    /\ canvas = Nothing

\* main, lines 329-358: the user name, the build of the web app and the
\* local directory are checked; main returns 2 or 1 when one of them fails.
DeployPrepare ==
    /\ pc = "deploy_ready"
    /\ \E outcome \in {"ok", "no_user", "no_webapp_dir", "build_failed", "no_local_dir"} :
          /\ result' = CASE outcome = "ok" -> result
                         [] outcome = "build_failed" -> 1
                         [] OTHER -> 2
          /\ stderr' = IF outcome = "ok" THEN stderr
                       ELSE stderr \cup { [ text |-> outcome, path |-> Nothing ] }
          /\ pc' = IF outcome = "ok" THEN "prepared" ELSE "exited"
    /\ UNCHANGED <<args, raised, locals, message, summary, outputs, pdf_path, files, svg, canvas, deploy_vars>>

\* main, lines 371-387 with connect_sftp, lines 122-164 (password
\* authentication): ssh.connect, then ssh.open_sftp; main's names ssh and
\* sftp are bound only when both succeed. An exception is caught at line
\* 400 and makes main return 1.
DeployConnect ==
    /\ pc = "prepared"
    /\ LET connect_ok == Len(calls) + 1 # args.fail_at
           sftp_ok    == connect_ok /\ Len(calls) + 2 # args.fail_at
       IN  /\ calls' = calls \o << [ op |-> "ssh.connect", path |-> <<>>, ok |-> connect_ok ] >>
                         \o (IF connect_ok
                             THEN << [ op |-> "open_sftp", path |-> <<>>, ok |-> sftp_ok ] >>
                             ELSE << >>)
           /\ connections' = [ ssh  |-> IF connect_ok THEN "open" ELSE "unopened",
                               sftp |-> IF sftp_ok THEN "open" ELSE "unopened" ]
           /\ locals' = [ bound |-> sftp_ok, wiped_at |-> 0 ]
           /\ raised' = IF sftp_ok THEN "none" ELSE "Exception"
           /\ result' = IF sftp_ok THEN result ELSE 1
           /\ stderr' = IF sftp_ok THEN stderr
                        ELSE stderr \cup { [ text |-> "ERROR", path |-> Nothing ] }
           /\ pc' = IF sftp_ok THEN "connected" ELSE "finally"
    /\ UNCHANGED <<args, message, summary, outputs, pdf_path, files, svg, canvas, remote>>

\* main, lines 389-391: the wipe; an exception makes main return 1.
DeployWipe ==
    /\ pc = "connected"
    /\ \E st \in { rm_remote_tree_contents(SftpState, args.remote_root, args.dry_run) } :
          /\ remote' = st.remote
          /\ calls'  = st.calls
          /\ raised' = st.raised
          /\ result' = IF st.raised = "none" THEN result ELSE 1
          /\ stderr' = IF st.raised = "none" THEN stderr
                       ELSE stderr \cup { [ text |-> "ERROR", path |-> Nothing ] }
          /\ locals' = [ bound |-> TRUE, wiped_at |-> IF st.raised = "none" THEN Len(st.calls) ELSE 0 ]
          /\ pc' = IF st.raised = "none" THEN "wiped" ELSE "finally"
    /\ UNCHANGED <<args, message, summary, outputs, pdf_path, files, svg, canvas, connections>>

\* main, lines 393-398: the upload, then return 0; an exception makes main
\* return 1.
DeployUpload ==
    /\ pc = "wiped"
    /\ \E st \in { upload_tree(SftpState, args.local, args.remote_root, args.dry_run) } :
          /\ remote' = st.remote
          /\ calls'  = st.calls
          /\ raised' = st.raised
          /\ result' = IF st.raised = "none" THEN 0 ELSE 1
          /\ stderr' = IF st.raised = "none" THEN stderr
                       ELSE stderr \cup { [ text |-> "ERROR", path |-> Nothing ] }
          /\ pc' = "finally"
    /\ UNCHANGED <<args, locals, message, summary, outputs, pdf_path, files, svg, canvas, connections>>

\* main, lines 404-412: the finally clause. sftp.close() and ssh.close()
\* raise NameError, which is passed over, when the names are not bound.
DeployFinally ==
    /\ pc = "finally"
    /\ IF locals.bound
       THEN /\ calls' = calls \o << [ op |-> "sftp.close", path |-> <<>>, ok |-> TRUE ],
                                    [ op |-> "ssh.close", path |-> <<>>, ok |-> TRUE ] >>
            /\ connections' = [ ssh |-> "closed", sftp |-> "closed" ]
       ELSE UNCHANGED <<calls, connections>>
    /\ pc' = "exited"
    /\ UNCHANGED <<args, raised, locals, result, export_vars, remote>>

NextDeploy == DeployPrepare \/ DeployConnect \/ DeployWipe \/ DeployUpload \/ DeployFinally

SpecDeploy == InitDeploy /\ [][NextDeploy]_vars

\* The functions of deploy.py called on their own, over an open connection.
InitSftp ==
    /\ args \in DeployInputs
    /\ pc = "sftp_ready"
    /\ raised = "none"
    /\ locals = Nothing
    /\ result = Nothing
    /\ remote = args.remote
    /\ calls = << >>
    /\ connections = [ ssh |-> "open", sftp |-> "open" ]
    /\ message = Nothing
    /\ summary = Nothing
    /\ outputs = {}
    /\ pdf_path = Nothing
    /\ files = {}
    /\ stderr = {}
    /\ svg = Nothing
    /\ canvas = Nothing

\* A call of rm_remote_tree_contents.
CallRmRemoteTreeContents ==
    /\ pc = "sftp_ready"
    /\ \E st \in { rm_remote_tree_contents(SftpState, args.remote_root, args.dry_run) } :
          /\ remote' = st.remote
          /\ calls'  = st.calls
          /\ raised' = st.raised
    /\ pc' = "rm_returned"
    /\ UNCHANGED <<args, locals, result, export_vars, connections>>

\* A call of ensure_remote_dir.
CallEnsureRemoteDir ==
    /\ pc = "sftp_ready"
    /\ \E st \in { ensure_remote_dir(SftpState, args.remote_root, args.dry_run) } :
          /\ remote' = st.remote
          /\ calls'  = st.calls
          /\ raised' = st.raised
    /\ pc' = "ensure_returned"
    /\ UNCHANGED <<args, locals, result, export_vars, connections>>

\* A call of upload_tree.
CallUploadTree ==
    /\ pc = "sftp_ready"
    /\ \E st \in { upload_tree(SftpState, args.local, args.remote_root, args.dry_run) } :
          /\ remote' = st.remote
          /\ calls'  = st.calls
          /\ raised' = st.raised
    /\ pc' = "upload_returned"
    /\ UNCHANGED <<args, locals, result, export_vars, connections>>

NextSftp == CallRmRemoteTreeContents \/ CallEnsureRemoteDir \/ CallUploadTree

SpecSftp == InitSftp /\ [][NextSftp]_vars

----------------------------------------------------------------------------
(* Claims *)

\* The call is over and returned a summary.
Returned == pc # "ready" /\ raised = "none"

\* The call is over (returned, raised, or is drawing the PDF).
Called == pc # "ready"

\* C1: for columns, rows >= 1 and a positive baseline unit, a returned
\* specification has module width > 0 and module height > 0 (otherwise the
\* engine raises); no summary carries a zero or negative module dimension.
C1_ModulePositiveOrError ==
    (Returned /\ locals.grid_unit > 0) =>
        /\ locals.mod_w.num > 0
        /\ locals.mod_h > 0
        /\ summary.module.width > 0
        /\ summary.module.height > 0

\* C2: a returned specification (positive baseline unit) has all four
\* margins >= 0, top + bottom < page height and left + right < page width.
C2_MarginsWithinPage ==
    (Returned /\ locals.grid_unit > 0) =>
        /\ locals.margin_top >= 0
        /\ locals.margin_bottom >= 0
        /\ locals.margin_left >= 0
        /\ locals.margin_right >= 0
        /\ locals.margin_top + locals.margin_bottom < locals.h
        /\ locals.margin_left + locals.margin_right < locals.w

\* The validation of lines 914-925 rejects these arguments.
InvalidArgs(a) ==
    \/ a.format_name \notin DOMAIN FORMATS_PT
    \/ a.margin_method \notin {1, 2, 3}
    \/ a.grid_cols < 1
    \/ a.grid_rows < 1
    \/ a.orientation \notin {"portrait", "landscape"}

\* C3: with an unsupported format, margin method or orientation, or with
\* columns < 1 or rows < 1, the call raises ValueError, returns no summary
\* and no outputs, and writes no file; for an unsupported format the message
\* names the accepted formats.
C3_InvalidInputRaises ==
    (Called /\ InvalidArgs(args)) =>
        /\ raised = "ValueError"
        /\ pc \in {"generated", "exported"}
        /\ locals = Nothing
        /\ summary = Nothing
        /\ outputs = {}
        /\ pdf_path = Nothing
        /\ files = {}
        /\ stderr = {}
        /\ (args.format_name \notin DOMAIN FORMATS_PT =>
                /\ message.text = "Unsupported format"
                /\ message.got = <<args.format_name>>
                /\ message.use = FORMATS_PT_keys
                /\ { message.use[i] : i \in DOMAIN message.use } = DOMAIN FORMATS_PT)

C3_Witness ==
    /\ pc = "exported"
    /\ args.format_name = "B5"
    /\ raised = "ValueError"
    /\ message.use = FORMATS_PT_keys
    /\ files = {}

\* The arguments of the scenario of C4: A4, landscape, 2x4, grid-based, 24pt.
C4_Args ==
    [ format_name |-> "A4", margin_method |-> 3, orientation |-> "landscape",
      grid_cols |-> 2, grid_rows |-> 4, custom_baseline |-> Some(24 * PT) ]

\* C4: A4 landscape, 2x4, grid-based margins, baseline override 24pt: the
\* four margins of the strategy are 24.0pt, both gutters are 24.0pt and the
\* scale factor of the returned specification is 1.0.
C4_LandscapeOverrideScenario ==
    (Returned /\ args = C4_Args) =>
        /\ locals.proposed.margin_top = 24 * PT
        /\ locals.proposed.margin_bottom = 24 * PT
        /\ locals.proposed.margin_left = 24 * PT
        /\ locals.proposed.margin_right = 24 * PT
        /\ locals.grid_margin_horizontal = 24 * PT
        /\ locals.grid_margin_vertical = 24 * PT
        /\ locals.scale_factor = SF
        /\ summary.grid.scale_factor = 1000

\* The arguments of the scenario of C5: A4, portrait, 9x9, progressive, no override.
C5_Args ==
    [ format_name |-> "A4", margin_method |-> 1, orientation |-> "portrait",
      grid_cols |-> 9, grid_rows |-> 9, custom_baseline |-> None ]

OtherOrientation(o) == IF o = "portrait" THEN "landscape" ELSE "portrait"

\* C6: the scale factor of a format is the same in portrait and in landscape.
C6_ScaleFactorSymmetric ==
    Returned =>
        locals.scale_factor =
            calculate_scale_factor(args.format_name, OtherOrientation(args.orientation))

C8_TopMarginOnBaseline ==
    Returned =>
        \E k \in 0..3 : locals.margin_top = k * locals.grid_unit

C8_Witness ==
    /\ Returned
    /\ args.margin_method = 2
    /\ args.custom_baseline = Some(85039)
    /\ locals.margin_top = 2 * 85039

\* C9: in every returned specification baseline_units_per_cell is an integer
\* >= 2, and module height + vertical gutter = baseline_units_per_cell *
\* baseline unit.
C9_CellHeightIsBaselineMultiple ==
    Returned =>
        /\ locals.baseline_units_per_cell \in Int
        /\ locals.baseline_units_per_cell >= 2
        /\ summary.grid.baseline_units_per_cell = locals.baseline_units_per_cell
        /\ locals.mod_h + locals.grid_margin_vertical
              = locals.baseline_units_per_cell * locals.grid_unit

\* A returned grid where the minimum of 2 was applied, and one where it was not.
C9_Witness ==
    /\ Returned
    /\ locals.grid_unit > 0
    /\ Trunc(locals.total_vertical_units, args.grid_rows) < 2
    /\ locals.baseline_units_per_cell = 2
    /\ locals.mod_h = locals.grid_unit

\* C10: in every returned specification module width * columns + horizontal
\* gutter * (columns - 1) = page width - left - right, with left and right as
\* the margin strategy returned them (never snapped to the baseline unit).
C10_ModuleWidthFillsNetWidth ==
    Returned =>
        /\ locals.margin_left = locals.proposed.margin_left
        /\ locals.margin_right = locals.proposed.margin_right
        /\ locals.net_w = locals.w - (locals.proposed.margin_left + locals.proposed.margin_right)
        /\ locals.mod_w.den > 0
        /\ locals.mod_w.num * args.grid_cols
              + locals.grid_margin_horizontal * (args.grid_cols - 1) * locals.mod_w.den
              = locals.net_w * locals.mod_w.den

\* Van de Graaf with 3 columns: the right margin is 1.5 baseline units, not a
\* multiple of the baseline unit.
C10_Witness ==
    /\ Returned
    /\ args.margin_method = 2
    /\ args.grid_cols = 3
    /\ locals.grid_unit > 0
    /\ 2 * locals.margin_right = 3 * locals.grid_unit
    /\ locals.mod_w.num > 0

\* C11: in every returned specification top margin + rows * module height +
\* (rows - 1) * vertical gutter + bottom margin = page height (the bottom
\* margin is the remainder), and the summary's content-area height is the
\* height of the rows and their gutters, not the page height minus the
\* margins the strategy proposed.
C11_BottomMarginIsRemainder ==
    Returned =>
        /\ locals.margin_top + args.grid_rows * locals.mod_h
              + (args.grid_rows - 1) * locals.grid_margin_vertical
              + locals.margin_bottom = locals.h
        /\ summary.content_area.height =
              Round3(args.grid_rows * locals.mod_h
                        + (args.grid_rows - 1) * locals.grid_margin_vertical)
        /\ summary.grid.margins.bottom =
              Round3(locals.h - locals.margin_top
                        - (args.grid_rows * locals.mod_h
                              + (args.grid_rows - 1) * locals.grid_margin_vertical))

\* The remainder differs from the snapped bottom margin, and the content-area
\* height from the page height minus the proposed margins.
C11_Witness ==
    /\ Returned
    /\ locals.grid_unit > 0
    /\ args.grid_rows > 1
    /\ locals.margin_bottom > 0
    /\ locals.margin_bottom # locals.margin_bottom_snapped
    /\ summary.content_area.height
          # Round3(locals.h - (locals.proposed.margin_top + locals.proposed.margin_bottom))

\* C12: for a positive baseline unit, baseline_units_per_cell =
\* max(2, floor(totalUnits / rows)), where totalUnits is netHeight / baseline
\* unit rounded to the nearest integer and netHeight is the page height minus
\* the top and bottom margins of the strategy snapped to the baseline unit.
C12_UnitsPerCellIsFloor ==
    (Returned /\ locals.grid_unit > 0) =>
        LET gu   == locals.grid_unit
            top  == locals.margin_top
            bot  == locals.margin_bottom_snapped
            netH == locals.h - top - bot
            t    == locals.total_vertical_units
            f    == t \div args.grid_rows
        IN  /\ top % gu = 0 /\ 2 * Abs(locals.proposed.margin_top - top) <= gu
            /\ bot % gu = 0 /\ 2 * Abs(locals.proposed.margin_bottom - bot) <= gu
            /\ 2 * Abs(netH - t * gu) <= gu
            /\ f * args.grid_rows <= t /\ t < (f + 1) * args.grid_rows
            /\ locals.baseline_units_per_cell = (IF f < 2 THEN 2 ELSE f)

\* The division leaves a remainder of at least half the rows and the floor is
\* above the minimum.
C12_Witness ==
    /\ Returned
    /\ locals.grid_unit > 0
    /\ 2 * (locals.total_vertical_units % args.grid_rows) >= args.grid_rows
    /\ locals.total_vertical_units \div args.grid_rows > 2
    /\ locals.baseline_units_per_cell = locals.total_vertical_units \div args.grid_rows

\* The strategy of the call, applied to another page and another grid.
StrategyOn(page, grid_cols, grid_rows) ==
    CASE args.strategy = 1 ->
            calculate_progressive_margins(args.grid_unit, page.w, page.h, grid_cols, grid_rows, args.baseline_multiple)
      [] args.strategy = 2 ->
            calculate_vandegraaf_margins(args.grid_unit, page.w, page.h, grid_cols, grid_rows, args.baseline_multiple)
      [] args.strategy = 3 ->
            calculate_grid_based_margins(args.grid_unit, page.w, page.h, grid_cols, grid_rows, args.baseline_multiple)

\* C13: each margin strategy returns its canonical ratios times baseline unit
\* * baseline multiple (progressive top 1, left = right 2, bottom 3; Van de
\* Graaf left 1, top 2, right 1.5, bottom 3; grid-based all 1), and the
\* result is the same for every page width, page height, columns and rows.
\* The ratio 1.5 is checked to the resolution of the lengths (1/PT pt).
C13_StrategyRatios ==
    pc = "strategy_returned" =>
        LET u == args.grid_unit * args.baseline_multiple
        IN  /\ args.strategy = 1 =>
                  /\ locals.margin_top = u
                  /\ locals.margin_left = 2 * u
                  /\ locals.margin_right = 2 * u
                  /\ locals.margin_bottom = 3 * u
            /\ args.strategy = 2 =>
                  /\ locals.margin_left = u
                  /\ locals.margin_top = 2 * u
                  /\ Abs(2 * locals.margin_right - 3 * u) <= 1
                  /\ locals.margin_bottom = 3 * u
            /\ args.strategy = 3 =>
                  /\ locals.margin_top = u
                  /\ locals.margin_bottom = u
                  /\ locals.margin_left = u
                  /\ locals.margin_right = u
            /\ \A page \in StrategyPages, c \in {1, MaxCols}, r \in {1, MaxRows} :
                  StrategyOn(page, c, r) = locals

\* Van de Graaf with a baseline multiple of 2 on a 2x3 grid.
C13_Witness ==
    /\ pc = "strategy_returned"
    /\ args.strategy = 2
    /\ args.baseline_multiple = 2
    /\ args.grid_cols = 2
    /\ args.grid_rows = 3
    /\ args.grid_unit = 12 * PT
    /\ locals.margin_right = 36 * PT
    /\ locals.margin_top = 48 * PT

\* The invocation with the same arguments and no baseline override.
WithoutOverride == Call([args EXCEPT !.custom_baseline = None])

\* C14: two invocations that differ only in the baseline override (none
\* included) return the same scale factor and the same size for every
\* typography style. Each returned invocation is compared with the one
\* without override, so any two overrides agree with each other.
C14_OverrideKeepsTypeSize ==
    (pc = "generated" /\ raised = "none") =>
        \E r \in {WithoutOverride} :
            /\ r.raised = "none"
            /\ r.locals.scale_factor = locals.scale_factor
            /\ r.summary.grid.scale_factor = summary.grid.scale_factor
            /\ r.summary.typography.metadata.scale_factor
                  = summary.typography.metadata.scale_factor
            /\ \A s \in DOMAIN A4_TYPOGRAPHY :
                  r.summary.typography.styles[s].size = summary.typography.styles[s].size

\* A3 with a 24pt override: body type stays at A3's size while its leading
\* and the top margin follow the override.
C14_Witness ==
    /\ pc = "generated"
    /\ raised = "none"
    /\ args.format_name = "A3"
    /\ args.orientation = "portrait"
    /\ args.custom_baseline = Some(24 * PT)
    /\ locals.grid_unit = 24 * PT
    /\ locals.grid_unit # WithoutOverride.locals.grid_unit
    /\ summary.typography.styles["body"].leading = 24000
    /\ summary.typography.styles["body"].leading
          # WithoutOverride.summary.typography.styles["body"].leading
    /\ summary.typography.styles["body"].size
          = WithoutOverride.summary.typography.styles["body"].size

\* C15: for every style of the typography table and every baseline unit the
\* scaled leading (reference leading * baseline unit / 12) is an integer
\* multiple of the current baseline unit; the summary reports it rounded to
\* 3 decimals.
C15_LeadingOnBaseline ==
    Returned =>
        \A s \in DOMAIN A4_TYPOGRAPHY :
            \E k \in 0..6 :
                /\ A4_TYPOGRAPHY[s].leading * locals.grid_unit
                      = k * (BASE_GRID_UNIT \div PT) * locals.grid_unit
                /\ summary.typography.styles[s].leading = Round3(k * locals.grid_unit)

\* The value a printed decimal field reads as, in thousandths.
Parse3(d) == (IF d.neg THEN -1 ELSE 1) * (d.whole * 1000 + d.frac)

\* Every decimal number and every count printed in a text rendering.
TextDecimals(t) ==
    { Parse3(d) : d \in
        { t.Page_Size[1], t.Page_Size[2], t.Content_Area[1], t.Content_Area[2],
          t.Module_Size[1], t.Module_Size[2], t.Aspect_Ratio, t.Scale_Factor,
          t.Baseline_Grid, t.H_Gutter, t.V_Gutter, t.Cell_Height.height,
          t.Margins.T, t.Margins.B, t.Margins.L, t.Margins.R }
        \cup { t.Styles[s].size : s \in DOMAIN t.Styles }
        \cup { t.Styles[s].leading : s \in DOMAIN t.Styles } }

TextCounts(t) == { t.Grid.cols, t.Grid.rows, t.Cell_Height.baseline_units }

\* Every decimal number and every count of a summary (a4_baseline is a length).
SummaryDecimals(s) ==
    { s.page_size_pt.width, s.page_size_pt.height,
      s.grid.grid_unit, s.grid.grid_margin_horizontal, s.grid.grid_margin_vertical,
      s.grid.margins.top, s.grid.margins.bottom, s.grid.margins.left, s.grid.margins.right,
      s.grid.gutter, s.grid.scale_factor,
      s.content_area.width, s.content_area.height,
      s.module.width, s.module.height, s.module.aspect_ratio,
      s.typography.metadata.baseline_grid, Round3(s.typography.metadata.a4_baseline),
      s.typography.metadata.scale_factor }
    \cup { s.typography.styles[n].size : n \in DOMAIN s.typography.styles }
    \cup { s.typography.styles[n].leading : n \in DOMAIN s.typography.styles }

SummaryCounts(s) ==
    { s.settings.margin_method_id, s.settings.grid_cols, s.settings.grid_rows,
      s.grid.baseline_units_per_cell }

FormatInFileName ==
    [ A6 |-> "a6", A5 |-> "a5", A4 |-> "a4", A3 |-> "a3", A2 |-> "a2", A1 |-> "a1", A0 |-> "a0" ]

\* C18: the three output names follow
\* {format}_{orientation}_{cols}x{rows}_method{methodId}_baseline{unit}pt_grid.{ext}
\* for ext in {json, txt, pdf} (the format in lower case, the unit as the
\* baseline unit rounded to whole points): they share one base name and
\* differ only in the extension; the json and txt names of summary.outputs
\* are exactly the keys of the outputs that are written, and the pdf name
\* recorded there is the path handed to the PDF renderer.
C18_OutputNames ==
    Returned =>
        LET j == summary.outputs.grid_json
            t == summary.outputs.grid_txt
            p == summary.outputs.baseline_grid_pdf
        IN  /\ j.ext = "json" /\ t.ext = "txt" /\ p.ext = "pdf"
            /\ [j EXCEPT !.ext = "pdf"] = p
            /\ [t EXCEPT !.ext = "pdf"] = p
            /\ p.format = FormatInFileName[args.format_name]
            /\ p.orientation = args.orientation
            /\ p.cols = args.grid_cols
            /\ p.rows = args.grid_rows
            /\ p.method = args.margin_method
            /\ 2 * Abs(locals.grid_unit - p.baseline * PT) <= PT
            /\ outputs = {j, t}
            /\ pdf_path = p
            /\ files \subseteq {j, t, p}
            /\ \A e \in stderr : e.text = "Error writing" => e.path \in {j, t}
            /\ \A e \in stderr : e.text = "Warning: Failed to generate PDF" => e.path = p

\* An export with an 8.5039pt baseline wrote the three files, named with
\* baseline 9.
C18_Witness ==
    /\ pc = "exported"
    /\ raised = "none"
    /\ args.custom_baseline = Some(85039)
    /\ args.format_name = "A4"
    /\ summary.outputs.baseline_grid_pdf.baseline = 9
    /\ summary.outputs.baseline_grid_pdf.format = "a4"
    /\ files = {summary.outputs.grid_json, summary.outputs.grid_txt, pdf_path}

\* The messages export_swiss_assets prints on stderr.
WriteError(path) == [ text |-> "Error writing", path |-> path ]
PdfWarning == [ text |-> "Warning: Failed to generate PDF", path |-> pdf_path ]

\* C19: in export_swiss_assets a failure of the PDF (backend missing or an
\* exception while drawing) never prevents the JSON and TXT files from being
\* written and never raises: both writes are over before the PDF is
\* attempted, the failure is reported as a warning, and the summary and the
\* outputs are still returned; a write failure of one of the two files does
\* not stop the other from being written.
C19_FailuresAreIsolated ==
    (pc \in {"written", "exported", "drawing"} /\ raised = "none") =>
        /\ summary # Nothing
        /\ outputs = {summary.outputs.grid_json, summary.outputs.grid_txt}
        /\ \A p \in outputs : (p \in files) # (WriteError(p) \in stderr)
        /\ pc = "written" => (pdf_path \notin files /\ PdfWarning \notin stderr)
        /\ pc = "exported" => ((pdf_path \in files) # (PdfWarning \in stderr))

\* The TXT write failed and the PDF failed; the JSON file was written and the
\* call returned.
C19_Witness ==
    /\ pc = "exported"
    /\ raised = "none"
    /\ summary # Nothing
    /\ files = {summary.outputs.grid_json}
    /\ WriteError(summary.outputs.grid_txt) \in stderr
    /\ [ text |-> "Error generating PDF", path |-> Nothing ] \in stderr
    /\ PdfWarning \in stderr

\* The JSON write failed; the TXT file was written all the same, and both
\* before the PDF was attempted.
C19_WitnessJsonFails ==
    /\ pc = "written"
    /\ raised = "none"
    /\ files = {summary.outputs.grid_txt}
    /\ stderr = {WriteError(summary.outputs.grid_json)}

\* C20: the module/gutter drawing has exactly columns * rows cell rectangles,
\* one per (row, column) pair, the cell of row r and column c placed at
\* (left + c*(moduleW + gutterH), top + r*(moduleH + gutterV)), also when
\* columns differs from rows.
C20_OneRectanglePerCell ==
    pc = "drawn" =>
        LET g == summary.grid
            cells == svg.modules
        IN  /\ Len(cells) = args.grid_cols * args.grid_rows
            /\ \A r \in 0..(args.grid_rows - 1), c \in 0..(args.grid_cols - 1) :
                  \E i \in DOMAIN cells :
                      /\ Parse3(cells[i].x) = g.margins.left
                            + c * (summary.module.width + g.grid_margin_horizontal)
                      /\ Parse3(cells[i].y) = g.margins.top
                            + r * (summary.module.height + g.grid_margin_vertical)
                      /\ Parse3(cells[i].width) = summary.module.width
                      /\ Parse3(cells[i].height) = summary.module.height

\* C21: for a positive baseline unit the baseline drawing has exactly one
\* line at y = top + k * baseline unit for every integer k >= 0 with
\* top + k * baseline unit <= page height - bottom + 0.01, and no other line;
\* line k is emphasized (magenta, wider stroke) if and only if k mod 4 = 0.
C21_BaselineLines ==
    pc = "drawn_baselines" =>
        LET g     == summary.grid
            top   == g.margins.top
            limit == summary.page_size_pt.height - g.margins.bottom + 10
            lines == svg.lines
        IN  /\ \A i \in DOMAIN lines :
                  /\ Parse3(lines[i].y1) = top + (i - 1) * g.grid_unit
                  /\ Parse3(lines[i].y1) <= limit
                  /\ lines[i].y2 = lines[i].y1
                  /\ (lines[i].stroke = "magenta") <=> ((i - 1) % 4 = 0)
                  /\ (lines[i].stroke_width = "0.3") <=> ((i - 1) % 4 = 0)
                  /\ lines[i].stroke \in {"magenta", "blue"}
                  /\ lines[i].stroke_width \in {"0.3", "0.15"}
            /\ top + Len(lines) * g.grid_unit > limit
            /\ (top <= limit) => Len(lines) >= 1

\* The rectangles of a sequence, as a set.
Range(seq) == { seq[i] : i \in DOMAIN seq }

\* The composite document has been saved.
PdfSaved == pc = "exported" /\ raised = "none" /\ pdf_path \in files

\* C22: the saved composite document fills exactly the modules whose
\* (row + col) mod 2 = 0, outlines each of the columns * rows modules once,
\* and has one baseline line across the full page width (x from 0 to w) at
\* every increment h - k * grid_unit from the page top edge (k = 0) down to
\* the page bottom edge, none below the edge's tolerance, line k being
\* emphasized (wider, opaque) exactly when k mod 4 = 0.
C22_PdfModulesAndBaselines ==
    PdfSaved =>
        LET g    == summary.grid
            w    == summary.page_size_pt.width
            h    == summary.page_size_pt.height
            rows == summary.settings.grid_rows
            cols == summary.settings.grid_cols
            Module(r, c) == PdfModuleRect(r, c, h, g.margins.left, g.margins.top,
                                          summary.module.width, summary.module.height,
                                          g.grid_margin_horizontal, g.grid_margin_vertical)
            even == { rc \in (0..(rows - 1)) \X (0..(cols - 1)) : (rc[1] + rc[2]) % 2 = 0 }
            n    == Len(canvas.lines)
        IN  /\ Len(canvas.outlines) = cols * rows
            /\ \A r \in 0..(rows - 1), c \in 0..(cols - 1) :
                  /\ Module(r, c) \in Range(canvas.outlines)
                  /\ (Module(r, c) \in Range(canvas.fills)) <=> ((r + c) % 2 = 0)
            /\ Len(canvas.fills) = Cardinality(even)
            /\ \A i \in 1..n :
                  LET line == canvas.lines[i]
                  IN  /\ line.x1 = 0 /\ line.x2 = w
                      /\ line.y1 = h - (i - 1) * g.grid_unit
                      /\ line.y2 = line.y1
                      /\ line.y1 >= 0 - Epsilon
                      /\ (line.line_width = "0.25") <=> ((i - 1) % 4 = 0)
                      /\ (line.alpha = "1") <=> ((i - 1) % 4 = 0)
            /\ h - n * g.grid_unit < 0

\* A saved document of a 3 x 4 grid with more than eight baselines, the
\* fifth emphasized and the sixth not, the last one within a baseline unit of
\* the page bottom edge.
C22_Witness ==
    /\ PdfSaved
    /\ summary.settings.grid_cols = 3
    /\ summary.settings.grid_rows = 4
    /\ Len(canvas.fills) = 6
    /\ Len(canvas.outlines) = 12
    /\ Len(canvas.lines) > 8
    /\ canvas.lines[5].line_width = "0.25"
    /\ canvas.lines[6].line_width = "0.15"
    /\ canvas.lines[Len(canvas.lines)].y1 < summary.grid.grid_unit
    /\ canvas.lines[1].y1 = summary.page_size_pt.height

\* C23: when floor(total_vertical_units / rows) >= 2, the aligned content
\* height rows * module height + (rows - 1) * vertical gutter does not exceed
\* the net height left by the snapped strategy margins, and the re-derived
\* bottom margin is at least the bottom margin the strategy proposed (and at
\* least its snapped value).
C23_FloorPreventsOverflow ==
    (Returned /\ locals.total_vertical_units \div args.grid_rows >= 2) =>
        /\ args.grid_rows * locals.mod_h + (args.grid_rows - 1) * locals.grid_margin_vertical
              <= locals.h - locals.margin_top - locals.margin_bottom_snapped
        /\ locals.margin_bottom >= locals.margin_bottom_snapped
        /\ locals.margin_bottom >= locals.proposed.margin_bottom

\* The division by the rows leaves a remainder that the floor discards, and
\* the re-derived bottom margin is larger than the proposed one.
C23_Witness ==
    /\ Returned
    /\ args.grid_rows > 1
    /\ locals.total_vertical_units \div args.grid_rows >= 2
    /\ locals.total_vertical_units % args.grid_rows # 0
    /\ locals.baseline_units_per_cell = locals.total_vertical_units \div args.grid_rows
    /\ locals.margin_bottom > locals.proposed.margin_bottom

\* C24: in every returned specification (the engine's values, before they are
\* rounded for the summary) the top edge top + r * cell height and the bottom
\* edge top + r * cell height + module height of the module of each row r
\* are integer multiples of the baseline unit, measured from the page top.
C24_ModuleEdgesOnBaselines ==
    Returned =>
        LET gu   == locals.grid_unit
            cell == locals.mod_h + locals.grid_margin_vertical
        IN  \A r \in 0..(args.grid_rows - 1) :
               /\ \E k \in {(locals.margin_top + r * cell) \div gu} :
                     k * gu = locals.margin_top + r * cell
               /\ \E k \in {(locals.margin_top + r * cell + locals.mod_h) \div gu} :
                     k * gu = locals.margin_top + r * cell + locals.mod_h

\* Four rows on a baseline unit of 8.5039pt under a top margin of two units:
\* the last module ends more than ten units down the page.
C24_Witness ==
    /\ Returned
    /\ args.grid_rows = 4
    /\ locals.grid_unit = 85039
    /\ locals.margin_top = 2 * locals.grid_unit
    /\ locals.baseline_units_per_cell > 2
    /\ locals.margin_top + 3 * (locals.mod_h + locals.grid_margin_vertical) + locals.mod_h
          > 10 * locals.grid_unit

\* C25: in the saved composite document the module of row r spans, measured
\* from the page top, from top + r * (module height + vertical gutter) to
\* that plus the module height, as in the module/gutter drawing, and every
\* drawn module lies between the top margin and page height - bottom margin.
C25_PdfModulesInContentArea ==
    PdfSaved =>
        LET g    == summary.grid
            h    == summary.page_size_pt.height
            cols == summary.settings.grid_cols
            mh   == summary.module.height
        IN  \A i \in DOMAIN canvas.outlines :
               LET rect == canvas.outlines[i]
                   r    == (i - 1) \div cols
                   from_top == h - (rect.y + rect.height)
               IN  /\ from_top = g.margins.top + r * (mh + g.grid_margin_vertical)
                   /\ from_top + rect.height = g.margins.top + r * (mh + g.grid_margin_vertical) + mh
                   /\ g.margins.top <= from_top
                   /\ from_top + rect.height <= h - g.margins.bottom

\* C26: the export terminates for every input the engine's validation lets
\* through, every accepted baseline override included: once the outputs are
\* written, the composite document's baseline loop draws finitely many lines
\* and export_swiss_assets returns.
C26_ExportTerminates == (pc = "written") ~> (pc = "exported")

\* C27: in select_option, for a non-empty option list and a default index
\* within range, the highlighted index is always within 0..len(options)-1;
\* Up or 'k' moves it to (index - 1) mod len and Down or 'j' to (index + 1)
\* mod len, wrapping at both ends; any other key leaves it unchanged; Enter
\* returns exactly the highlighted option; Ctrl+C raises KeyboardInterrupt
\* and returns no option.
C27_MenuNavigation ==
    /\ [](pc \in {"menu", "menu_returned", "menu_raised"} =>
             locals.index \in 0..(Len(args.options) - 1))
    /\ [][ pc = "menu" =>
             LET n     == Len(args.options)
                 index == locals.index
                 key   == locals'.key
                 up    == IF index = 0 THEN n - 1 ELSE index - 1
                 down  == IF index = n - 1 THEN 0 ELSE index + 1
             IN  /\ key \in {"ESC[A", "k"} =>
                       (locals'.index = up /\ pc' = "menu" /\ result' = Nothing /\ raised' = "none")
                 /\ key \in {"ESC[B", "j"} =>
                       (locals'.index = down /\ pc' = "menu" /\ result' = Nothing /\ raised' = "none")
                 /\ key \in {"CR", "LF"} =>
                       (pc' = "menu_returned" /\ raised' = "none" /\ locals'.index = index
                          /\ result' = args.options[index + 1])
                 /\ key = "ETX" =>
                       (pc' = "menu_raised" /\ raised' = "KeyboardInterrupt" /\ result' = Nothing)
                 /\ key \notin {"ESC[A", "k", "ESC[B", "j", "CR", "LF", "ETX"} =>
                       (locals'.index = index /\ pc' = "menu" /\ result' = Nothing
                          /\ raised' = "none") ]_vars

\* Up from the first of four options has wrapped to the last one.
C27_Witness ==
    /\ pc = "menu"
    /\ Len(args.options) = 4
    /\ args.default_index = 0
    /\ locals.key = "ESC[A"
    /\ locals.index = 3

\* C28: rm_remote_tree_contents refuses '/' and the empty path: it raises
\* before any remote operation. For any other accessible directory a
\* successful call that is not a dry run leaves the directory in place and
\* empty, every subdirectory having been emptied before it is removed, and
\* touches nothing outside the directory.
C28_WipesContentsOnly ==
    pc = "rm_returned" =>
        LET root   == NodeOf(args.remote_root)
            before == args.remote
            Outside(nodes) == { n \in nodes : ~ IsBeneath(n, root) }
        IN  /\ args.remote_root \in { <<"">>, <<"", "">> } =>
                  (raised = "ValueError" /\ calls = << >> /\ remote = before)
            /\ (root # <<>> /\ root \in before.dirs /\ ~ args.dry_run /\ raised = "none") =>
                  /\ root \in remote.dirs
                  /\ ~ \E n \in remote.dirs \cup remote.files : IsBeneath(n, root)
                  /\ Outside(remote.dirs) = Outside(before.dirs)
                  /\ Outside(remote.files) = Outside(before.files)
                  /\ \A i \in DOMAIN calls :
                        /\ calls[i].path = root \/ IsBeneath(calls[i].path, root)
                        /\ calls[i].op = "rmdir" =>
                              \A n \in before.dirs \cup before.files :
                                 IsBeneath(n, calls[i].path) =>
                                    \E j \in 1..(i - 1) :
                                       /\ calls[j].path = n
                                       /\ calls[j].op \in {"rmdir", "remove"}
                                       /\ calls[j].ok

\* A successful wipe of /site, which held files and directories two levels
\* deep, beside /other, which holds a file.
C28_Witness ==
    /\ pc = "rm_returned"
    /\ raised = "none"
    /\ ~ args.dry_run
    /\ NodeOf(args.remote_root) = <<"site">>
    /\ <<"site", "a", "b", "z">> \in args.remote.files
    /\ <<"other", "x">> \in remote.files
    /\ \E i \in DOMAIN calls : calls[i].op = "rmdir" /\ calls[i].path = <<"site", "a">>

\* The remote calls that change the server's file system.
Mutating == {"remove", "rmdir", "mkdir", "put"}

\* C29: with dry_run set, rm_remote_tree_contents, ensure_remote_dir and
\* upload_tree make no remove, rmdir, mkdir or put call, for any remote and
\* local tree, and the server's file system after the call is the one before.
C29_DryRunChangesNothing ==
    (pc \in {"rm_returned", "ensure_returned", "upload_returned"} /\ args.dry_run) =>
        /\ remote = args.remote
        /\ \A i \in DOMAIN calls : calls[i].op \notin Mutating

\* A dry run of upload_tree that found a directory missing on the server and
\* had directories and files to upload.
C29_Witness ==
    /\ pc = "upload_returned"
    /\ args.dry_run
    /\ raised = "none"
    /\ Len(args.local) = 5
    /\ \E i \in DOMAIN calls : calls[i].op = "stat" /\ ~ calls[i].ok /\ Len(calls[i].path) = 3

\* The order of a deploy run's steps, the order within the upload, and the
\* exit code after a failure.
C30_StepOrder ==
    /\ \A i \in DOMAIN calls :
          calls[i].op \in Mutating \cup {"listdir_attr", "stat"} =>
             \E j \in 1..(i - 1) : calls[j].op = "open_sftp" /\ calls[j].ok
    /\ \A i \in DOMAIN calls :
          calls[i].op = "put" => (locals.wiped_at > 0 /\ i > locals.wiped_at)
    /\ \A i, j \in DOMAIN calls :
          (calls[i].op = "mkdir" /\ calls[j].op = "put") => i < j
    /\ \A i, j \in DOMAIN calls :
          (calls[i].op = "mkdir" /\ calls[j].op = "mkdir"
             /\ IsBeneath(calls[j].path, calls[i].path)) => i < j
    /\ pc = "exited" =>
          /\ raised # "none" => result = 1
          /\ \A i \in DOMAIN calls :
                (~ calls[i].ok /\ calls[i].op # "stat") =>
                   /\ result = 1
                   /\ \A j \in (i + 1)..Len(calls) : calls[j].op \in {"sftp.close", "ssh.close"}
          /\ raised = "ValueError" =>
                \A i \in DOMAIN calls :
                   calls[i].op \in {"ssh.connect", "open_sftp", "sftp.close", "ssh.close"}

\* After main has exited, a connection that was opened is closed.
C30_ConnectionsClosed ==
    pc = "exited" =>
        /\ (\E i \in DOMAIN calls : calls[i].op = "ssh.connect" /\ calls[i].ok) =>
              connections.ssh = "closed"
        /\ (\E i \in DOMAIN calls : calls[i].op = "open_sftp" /\ calls[i].ok) =>
              connections.sftp = "closed"

\* C30: a deploy run connects, wipes, then uploads: no remote deletion before
\* a connection is established, no file uploaded before the wipe has
\* succeeded, within the upload every directory created before any file is
\* put and a parent before its children, exit code 1 without later steps
\* after a failure in any step, and the SFTP and SSH connections closed on
\* every path after a connection was opened.
C30_DeployOrder == C30_StepOrder /\ C30_ConnectionsClosed

====
